---------------------------- MODULE Spec2Model ----------------------------
(***************************************************************************)
(* Model of the index validation / enrichment engine of the Zotero add-on  *)
(* "Add Items from Text" (src/src/indices.ts): the text normalizer, the    *)
(* similarity scorer, the six source adapters, the retrying request helper *)
(* and IndexValidationService.validateAndEnrich.                           *)
(*                                                                         *)
(* JavaScript values are records [kind, s]: kind is the typeof-like tag    *)
(* ("string", "undefined", "null", "number", "array") and s the characters *)
(* of a string (a tuple of one-character strings), of String(number), or   *)
(* of the first author's last name of an authors array.                    *)
(* Scores are exact fractions [n, d] in lowest terms.                      *)
(***************************************************************************)
EXTENDS Integers, Sequences, FiniteSets, TLC

-----------------------------------------------------------------------------
(* JavaScript values *)

Str(chars) == [kind |-> "string", s |-> chars]
Undefined == [kind |-> "undefined", s |-> <<>>]
Null == [kind |-> "null", s |-> <<>>]
Num(chars) == [kind |-> "number", s |-> chars]
Authors(lastName) == [kind |-> "array", s |-> lastName]

IsString(v) == v.kind = "string"

\* JavaScript truthiness (the numbers of the model are non-zero, arrays are objects)
Truthy(v) ==
  CASE v.kind = "string" -> v.s # <<>>
    [] v.kind = "number" -> TRUE
    [] v.kind = "array" -> TRUE
    [] OTHER -> FALSE

\* a || b
Or(a, b) == IF Truthy(a) THEN a ELSE b

-----------------------------------------------------------------------------
(* Characters *)

UpperSeq == <<"A", "B", "C", "D", "E", "H", "L", "N", "T", "U", "X">>
LowerSeq == <<"a", "b", "c", "d", "e", "h", "l", "n", "t", "u", "x">>
Digits == {"0", "1", "2", "3", "4", "5", "6", "7", "8", "9"}
LowerLetters == {LowerSeq[ix] : ix \in DOMAIN LowerSeq} \cup {"i", "o", "p", "s"}
\* precomposed accented letters and their NFD base letter
\* (named, since the module is ASCII: e_acute is U+00E9, a_circ is U+00E2)
AccentedSeq == <<"e_acute", "E_acute", "a_circ">>
AccentBaseSeq == <<"e", "E", "a">>
\* the character class of the quote-stripping replace of normalizeText
\* (apostrophe, a-circumflex, euro sign, trade mark sign, backtick, double quote)
QuoteChars == {"'", "a_circ", "euro", "tm", "backtick", "dquote"}
Whitespace == {" "}

IndexOf(seq, c) == CHOOSE ix \in DOMAIN seq : seq[ix] = c
InSeq(seq, c) == \E ix \in DOMAIN seq : seq[ix] = c

\* String.prototype.toLowerCase on one character
ToLowerChar(c) == IF InSeq(UpperSeq, c) THEN LowerSeq[IndexOf(UpperSeq, c)] ELSE c
\* normalize("NFD") followed by the removal of the combining marks, on one character
StripMarkChar(c) == IF InSeq(AccentedSeq, c) THEN AccentBaseSeq[IndexOf(AccentedSeq, c)] ELSE c

IsAlnumLower(c) == c \in LowerLetters \cup Digits
\* \w of a regular expression
IsWordChar(c) == c \in LowerLetters \cup Digits \cup {"_"} \/ InSeq(UpperSeq, c)

\* String.prototype.toLowerCase
ToLower(str) == [n \in DOMAIN str |-> ToLowerChar(str[n])]
\* normalize("NFD") followed by the removal of the combining marks
StripMarks(str) == [n \in DOMAIN str |-> StripMarkChar(str[n])]

\* seq without its elements that are in S
RECURSIVE Without(_, _)
Without(seq, S) ==
  IF seq = <<>> THEN <<>>
  ELSE IF Head(seq) \in S THEN Without(Tail(seq), S)
  ELSE <<Head(seq)>> \o Without(Tail(seq), S)

RECURSIVE TrimLeft(_)
TrimLeft(str) ==
  IF str # <<>> /\ Head(str) \in Whitespace THEN TrimLeft(Tail(str)) ELSE str

RECURSIVE TrimRight(_)
TrimRight(str) ==
  IF str # <<>> /\ str[Len(str)] \in Whitespace
  THEN TrimRight(SubSeq(str, 1, Len(str) - 1))
  ELSE str

\* String.prototype.trim
Trim(str) == TrimRight(TrimLeft(str))

StartsWith(str, prefix) ==
  Len(str) >= Len(prefix) /\ SubSeq(str, 1, Len(prefix)) = prefix

Drop(str, n) == SubSeq(str, n + 1, Len(str))

-----------------------------------------------------------------------------
(* Text normalizer *)

StopWords == {<<"a", "n", "d">>, <<"t", "h", "e">>}

\* the maximal runs of [a-z0-9] of str, in order: what .replace(/[^a-z0-9]+/g, " ")
\* leaves between the blanks
RECURSIVE Tokens(_, _)
Tokens(str, cur) ==
  IF str = <<>> THEN (IF cur = <<>> THEN <<>> ELSE <<cur>>)
  ELSE IF IsAlnumLower(Head(str)) THEN Tokens(Tail(str), Append(cur, Head(str)))
  ELSE (IF cur = <<>> THEN <<>> ELSE <<cur>>) \o Tokens(Tail(str), <<>>)

RECURSIVE JoinWith(_, _)
JoinWith(toks, sep) ==
  IF toks = <<>> THEN <<>>
  ELSE IF Len(toks) = 1 THEN toks[1]
  ELSE toks[1] \o sep \o JoinWith(Tail(toks), sep)

\* tokens of the normalized text: marks stripped, lowercased, quotes deleted,
\* non-alphanumerics turned into separators, the whole words "and", "the" removed
normalizeTokens(str) ==
  Without(Tokens(Without(ToLower(StripMarks(str)), QuoteChars), <<>>), StopWords)

\* normalizeText(value): the tokens joined by single blanks, trimmed
normalizeText(str) == JoinWith(normalizeTokens(str), <<" ">>)

\* isBlank without its toLowerCase
isBlankCaseSensitive(v) ==
  CASE v.kind \in {"null", "undefined"} -> TRUE
    [] v.kind = "string" -> Trim(v.s) = <<>> \/ Trim(v.s) = <<"n", "u", "l", "l">>
    [] OTHER -> FALSE

\* isBlank(value)
isBlank(v) ==
  CASE v.kind \in {"null", "undefined"} -> TRUE
    [] v.kind = "string" ->
         Trim(v.s) = <<>> \/ ToLower(Trim(v.s)) = <<"n", "u", "l", "l">>
    [] OTHER -> FALSE

-----------------------------------------------------------------------------
(* Exact arithmetic on scores *)

RECURSIVE GCD(_, _)
GCD(a, b) == IF b = 0 THEN a ELSE GCD(b, a % b)

Frac(n, d) == LET g == GCD(n, d) IN [n |-> n \div g, d |-> d \div g]
FZero == Frac(0, 1)
FOne == Frac(1, 1)
FAdd(a, b) == Frac(a.n * b.d + b.n * a.d, a.d * b.d)
FMul(a, b) == Frac(a.n * b.n, a.d * b.d)
FGeq(a, b) == a.n * b.d >= b.n * a.d
FGt(a, b) == a.n * b.d > b.n * a.d
FMin(a, b) == IF FGeq(a, b) THEN b ELSE a

-----------------------------------------------------------------------------
(* Similarity scorer *)

\* normalizeText(x).replace(/\s/g, "")
Squash(str) == Without(normalizeText(str), Whitespace)

Bigram(str, ix) == SubSeq(str, ix, ix + 1)

\* the Map of bigram counts of s1 (absent keys read as 0)
BigramCount(s1, bg) == Cardinality({ix \in 1..(Len(s1) - 1) : Bigram(s1, ix) = bg})

\* how many occurrences of bg the second loop has consumed so far
Taken(used, bg) == Cardinality({j \in DOMAIN used : used[j] = bg})

\* the second loop of diceCoefficient from position i on
RECURSIVE DiceIntersection(_, _, _, _)
DiceIntersection(s1, s2, ix, used) ==
  IF ix > Len(s2) - 1 THEN 0
  ELSE IF BigramCount(s1, Bigram(s2, ix)) - Taken(used, Bigram(s2, ix)) > 0
  THEN 1 + DiceIntersection(s1, s2, ix + 1, Append(used, Bigram(s2, ix)))
  ELSE DiceIntersection(s1, s2, ix + 1, used)

\* diceCoefficient from its s1 and s2 on
DiceOf(s1, s2) ==
  IF s1 = <<>> \/ s2 = <<>> THEN FZero
  ELSE IF s1 = s2 THEN FOne
  ELSE IF Len(s1) < 2 \/ Len(s2) < 2 THEN FZero
  ELSE Frac(2 * DiceIntersection(s1, s2, 1, <<>>), (Len(s1) - 1) + (Len(s2) - 1))

\* diceCoefficient(a, b) for two strings
diceCoefficient(a, b) == DiceOf(Squash(a), Squash(b))

HttpsPrefix == <<"h", "t", "t", "p", "s", ":", "/", "/", "d", "o", "i", ".", "o", "r", "g", "/">>
HttpPrefix == <<"h", "t", "t", "p", ":", "/", "/", "d", "o", "i", ".", "o", "r", "g", "/">>
DoiColon == <<"d", "o", "i", ":">>

\* Zotero.Utilities.cleanDOI of the host: string | false. The DOIs of the model
\* have a registrant code the host's pattern does not recognise, so it answers false.
cleanDOI(doi) == [kind |-> "boolean", s |-> <<>>]

\* normalizeDOI(raw) throws a TypeError: raw.trim is not a function
normalizeDOIThrows(raw) == Truthy(raw) /\ ~IsString(raw)

\* the loop over the two resolver prefixes
StripResolver(doi) ==
  IF StartsWith(ToLower(doi), HttpsPrefix) THEN Drop(doi, Len(HttpsPrefix))
  ELSE IF StartsWith(ToLower(doi), HttpPrefix) THEN Drop(doi, Len(HttpPrefix))
  ELSE doi

StripDoiColon(doi) == IF StartsWith(ToLower(doi), DoiColon) THEN Drop(doi, Len(DoiColon)) ELSE doi

\* the host's canonical form if it gives a string, else doi.trim()
CleanOrTrim(doi, cleaned) == IF IsString(cleaned) THEN cleaned.s ELSE Trim(doi)

Canonical(doi) == CleanOrTrim(doi, cleanDOI(doi))

\* normalizeDOI(raw), a string, when it does not throw
normalizeDOI(raw) ==
  IF ~Truthy(raw) THEN <<>> ELSE Canonical(StripDoiColon(StripResolver(Trim(raw.s))))

\* firstAuthorLastName(ref)
firstAuthorLastName(ref) ==
  IF ref.authors.kind = "array" THEN normalizeText(ref.authors.s) ELSE <<>>

IsYear4(str) == Len(str) = 4 /\ \A ix \in 1..4 : str[ix] \in Digits

\* the positions where /\b(\d{4})\b/ matches
YearHits(str) ==
  {p \in 1..(Len(str) - 3) :
     /\ IsYear4(SubSeq(str, p, p + 3))
     /\ (p = 1 \/ ~IsWordChar(str[p - 1]))
     /\ (p + 4 > Len(str) \/ ~IsWordChar(str[p + 4]))}

Least(S) == CHOOSE q \in S : \A r \in S : q <= r

FirstYear(str, hits) == IF hits = {} THEN <<>> ELSE SubSeq(str, Least(hits), Least(hits) + 3)

\* date.match(/\b(\d{4})\b/): the first run of four digits between word boundaries
MatchYear(str) == FirstYear(str, YearHits(str))

\* (x || "").toString()
StringOrEmpty(v) == IF Truthy(v) THEN v.s ELSE <<>>

YearOrDate(year, ref) ==
  IF year # <<>> /\ IsYear4(year) THEN year ELSE MatchYear(StringOrEmpty(ref.date))

\* extractYear(ref)
extractYear(ref) == YearOrDate(Trim(StringOrEmpty(ref.year)), ref)

\* a string method is called on a truthy value that is no string
NotAString(v) == Truthy(v) /\ ~IsString(v)

\* a && b ? (a === b ? 1 : 0) : 0 for two strings
ExactScore(a, b) == IF a # <<>> /\ b # <<>> /\ a = b THEN FOne ELSE FZero

TitleScore(ref, candidate) ==
  IF Truthy(candidate.title)
  THEN diceCoefficient(StringOrEmpty(ref.title), candidate.title.s)
  ELSE FZero

AuthorScore(ref, candidate) ==
  IF Truthy(candidate.firstAuthorLastName)
  THEN ExactScore(firstAuthorLastName(ref), normalizeText(candidate.firstAuthorLastName.s))
  ELSE FZero

\* candidate.year is compared as it is, the empty string being no year
YearScore(ref, candidate) == ExactScore(extractYear(ref), StringOrEmpty(candidate.year))

\* 0.75 * titleScore + 0.2 * authorScore + 0.05 * yearScore
Composite(titleScore, authorScore, yearScore) ==
  FAdd(FAdd(FMul(Frac(75, 100), titleScore), FMul(Frac(2, 10), authorScore)),
       FMul(Frac(5, 100), yearScore))

\* scoreCandidate with two different DOIs scored like a missing DOI
ScoreIgnoringMismatch(ref, candidate, refDoi, candDoi) ==
  IF refDoi # <<>> /\ candDoi # <<>> /\ refDoi = candDoi
  THEN [score |-> FOne, doiMismatch |-> FALSE]
  ELSE [score |-> Composite(TitleScore(ref, candidate), AuthorScore(ref, candidate),
                            YearScore(ref, candidate)),
        doiMismatch |-> FALSE]

\* scoreCandidate from its refDoi and candDoi on
ScoreWithDois(ref, candidate, refDoi, candDoi) ==
  IF refDoi # <<>> /\ candDoi # <<>>
  THEN (IF refDoi = candDoi THEN [score |-> FOne, doiMismatch |-> FALSE]
                            ELSE [score |-> FZero, doiMismatch |-> TRUE])
  ELSE [score |-> Composite(TitleScore(ref, candidate), AuthorScore(ref, candidate),
                            YearScore(ref, candidate)),
        doiMismatch |-> FALSE]

\* scoreCandidate(ref, candidate) when it does not throw
scoreCandidate(ref, candidate) ==
  ScoreWithDois(ref, candidate, normalizeDOI(ref.DOI), normalizeDOI(candidate.doi))

BothDois(refDoi, candDoi) == refDoi # <<>> /\ candDoi # <<>>

\* scoreCandidate(ref, candidate) throws: normalizeDOI on a non-string DOI, or
\* normalizeText on a non-string title
scoreCandidateThrows(ref, candidate) ==
  \/ normalizeDOIThrows(ref.DOI)
  \/ normalizeDOIThrows(candidate.doi)
  \/ /\ Truthy(candidate.title)
     /\ (NotAString(ref.title) \/ NotAString(candidate.title))
     /\ ~BothDois(normalizeDOI(ref.DOI), normalizeDOI(candidate.doi))

-----------------------------------------------------------------------------
(* References, matches, validation results *)

\* the fields of ExtractedReference the model carries; publicationTitle,
\* journalAbbreviation, volume, issue, pages and ISSN are patched by the adapters
\* exactly as publisher is and are left out
RefKeys == {"itemType", "title", "authors", "date", "year", "DOI", "url", "publisher", "ISBN"}

\* overwriteKeys of applyPatch
overwriteKeys ==
  {"title", "authors", "date", "year", "DOI", "url", "publicationTitle",
   "journalAbbreviation", "volume", "issue", "pages", "ISSN", "ISBN", "publisher",
   "place", "edition", "bookTitle", "conferenceName", "proceedingsTitle",
   "university", "thesisType", "series", "seriesNumber", "numPages"}

\* normalizeReference(ref) of the extraction step, which every reference has
\* passed before validateAndEnrich sees it
normalizeReference(r) ==
  LET date == IF IsString(r.date) THEN Str(Trim(r.date.s)) ELSE r.date
      year == IF IsString(r.year) THEN Str(Trim(r.year.s)) ELSE r.year
      nul == Str(<<"n", "u", "l", "l">>)
      r1 == IF (~Truthy(date) \/ date = nul) /\ Truthy(year) /\ year # nul
            THEN [r EXCEPT !.date = Str(year.s)] ELSE r
  IN IF (~Truthy(year) \/ year = nul) /\ Truthy(date) /\ date # nul /\ MatchYear(date.s) # <<>>
     THEN [r1 EXCEPT !.year = Str(MatchYear(date.s))]
     ELSE r1

NoPatch == [key \in {} |-> Undefined]

\* a match of any status carrying a patch made of its url
MatchWithPatch(source, status, score, explanation, url) ==
  [source |-> source, status |-> status, score |-> score, explanation |-> explanation,
   url |-> url, hasPatch |-> TRUE, patch |-> [url |-> url]]

Match(source, status, score, explanation, url) ==
  [source |-> source, status |-> status, score |-> score, explanation |-> explanation,
   url |-> url, hasPatch |-> FALSE, patch |-> NoPatch]

Validated(source, score, explanation, url, patch) ==
  [source |-> source, status |-> "validated", score |-> score, explanation |-> explanation,
   url |-> url, hasPatch |-> TRUE, patch |-> patch]

EmptyValidation == [isValid |-> TRUE, errors |-> <<>>, warnings |-> <<>>, suggestions |-> <<>>]

SourcePrefix(source) ==
  CASE source = "openalex" -> "OpenAlex"
    [] source = "crossref" -> "Crossref"
    [] source = "lobid" -> "lobid"
    [] source = "loc" -> "Library of Congress"
    [] source = "gbv" -> "GBV/K10Plus"
    [] OTHER -> "Wikidata"

\* the message of buildValidationFromMatch: prefix, explanation and, when the
\* match has a truthy url, the url
MessageOf(match) ==
  [prefix |-> SourcePrefix(match.source), explanation |-> match.explanation,
   url |-> IF Truthy(match.url) THEN match.url ELSE Undefined]

\* buildValidationFromMatch(match)
buildValidationFromMatch(match) ==
  IF match.status = "invalid"
  THEN [isValid |-> FALSE, errors |-> <<MessageOf(match)>>, warnings |-> <<>>, suggestions |-> <<>>]
  ELSE [isValid |-> TRUE, errors |-> <<>>, warnings |-> <<MessageOf(match)>>, suggestions |-> <<>>]

\* mergeValidation with the verdict of extra alone
mergeValidationLastVerdict(base, extra) ==
  [isValid |-> extra.isValid,
   errors |-> base.errors \o extra.errors,
   warnings |-> base.warnings \o extra.warnings,
   suggestions |-> base.suggestions \o extra.suggestions]

\* mergeValidation with the lists of extra put first
mergeValidationExtraFirst(base, extra) ==
  [isValid |-> base.isValid /\ extra.isValid,
   errors |-> extra.errors \o base.errors,
   warnings |-> extra.warnings \o base.warnings,
   suggestions |-> extra.suggestions \o base.suggestions]

\* mergeValidation(base, extra) for a defined base
mergeValidation(base, extra) ==
  [isValid |-> base.isValid /\ extra.isValid,
   errors |-> base.errors \o extra.errors,
   warnings |-> base.warnings \o extra.warnings,
   suggestions |-> base.suggestions \o extra.suggestions]

\* the iteration without the test of overwriteKeys
PatchedFieldAnyKey(existing, key, value, forceOverwrite) ==
  IF isBlank(value) THEN existing
  ELSE IF forceOverwrite THEN value
  ELSE IF isBlank(existing) THEN value
  ELSE existing

\* one iteration of the loop of applyPatch: the new value of merged[key]
PatchedField(existing, key, value, forceOverwrite) ==
  IF isBlank(value) THEN existing
  ELSE IF forceOverwrite /\ key \in overwriteKeys THEN value
  ELSE IF isBlank(existing) THEN value
  ELSE existing

\* applyPatch without its first statement
applyPatchAlways(ref, patch, enrichFromIndexes, forceOverwrite) ==
  [key \in DOMAIN ref |->
     IF key \in DOMAIN patch
     THEN PatchedField(ref[key], key, patch[key], forceOverwrite)
     ELSE ref[key]]

\* applyPatch(ref, patch, enrichFromIndexes, forceOverwrite); the keys of a patch
\* are distinct, so the iterations are independent
applyPatch(ref, patch, enrichFromIndexes, forceOverwrite) ==
  IF ~enrichFromIndexes THEN ref
  ELSE [key \in DOMAIN ref |->
          IF key \in DOMAIN patch
          THEN PatchedField(ref[key], key, patch[key], forceOverwrite)
          ELSE ref[key]]

\* a rank that puts invalid before validated
RankInvalidFirst(m) ==
  CASE m.status = "invalid" -> 0
    [] m.status = "validated" -> 1
    [] m.status = "not_found" -> 2
    [] OTHER -> 3

\* rank of the comparator of validateAndEnrich
Rank(m) ==
  CASE m.status = "validated" -> 0
    [] m.status = "invalid" -> 1
    [] m.status = "not_found" -> 2
    [] OTHER -> 3

\* a comparator of the scores alone
SortsBeforeByScore(a, b) == FGt(a.score, b.score)

\* the comparator: a sorts before b
SortsBefore(a, b) ==
  IF Rank(a) # Rank(b) THEN Rank(a) < Rank(b) ELSE FGt(a.score, b.score)

\* Array.prototype.sort, which is stable: insertion of m after every element
\* that does not sort after it
RECURSIVE InsertSorted(_, _)
InsertSorted(sorted, m) ==
  IF sorted = <<>> THEN <<m>>
  ELSE IF SortsBefore(m, Head(sorted)) THEN <<m>> \o sorted
  ELSE <<Head(sorted)>> \o InsertSorted(Tail(sorted), m)

RECURSIVE SortMatches(_)
SortMatches(ms) ==
  IF ms = <<>> THEN <<>>
  ELSE InsertSorted(SortMatches(SubSeq(ms, 1, Len(ms) - 1)), ms[Len(ms)])

-----------------------------------------------------------------------------
(* Source adapters.                                                        *)
(* A provider record (candidate) is [title, doi, year, author, url,        *)
(* publisher, isbn, scholarly]: the fields the adapters read from a        *)
(* provider's answer, each a JavaScript value; scholarly says whether a    *)
(* Wikidata description names an article, book, paper or journal.          *)
(* The body of an answer is [kind, items]: "records" with the candidates   *)
(* it holds, "none" for a null, empty or unparsable body, "garbage" for a  *)
(* body whose shape makes the adapter's parsing throw.                     *)
(* A response is [threw, status, body].                                    *)

\* a threshold of 0.85 for every adapter
ThresholdOfLabels == Frac(85, 100)

\* score >= 0.8
Threshold == Frac(8, 10)
LabelThreshold == Frac(85, 100)
ForceThreshold == Frac(95, 100)

EmptyItem ==
  [title |-> Undefined, doi |-> Undefined, year |-> Undefined, author |-> Undefined,
   url |-> Undefined, publisher |-> Undefined, isbn |-> Undefined, scholarly |-> FALSE]

ItemsOf(resp) == IF resp.body.kind = "records" THEN resp.body.items ELSE <<>>

\* the loop with "score >= best.score": the last of the best candidates
RECURSIVE BestIndexOfLast(_, _, _)
BestIndexOfLast(scores, ix, best) ==
  IF ix > Len(scores) THEN best
  ELSE BestIndexOfLast(scores, ix + 1,
                       IF best = 0 \/ FGeq(scores[ix], scores[best]) THEN ix ELSE best)

\* the loops "if (!best || score > best.score) best = ..." over the scores
RECURSIVE BestIndex(_, _, _)
BestIndex(scores, ix, best) ==
  IF ix > Len(scores) THEN best
  ELSE BestIndex(scores, ix + 1,
                 IF best = 0 \/ FGt(scores[ix], scores[best]) THEN ix ELSE best)

\* explanations are <<text, detail>>; the detail is the HTTP status of a failed
\* request (the formatted score of the other explanations is match.score)
Expl(text) == <<text, "">>

HttpText(status) ==
  CASE status = 200 -> "HTTP 200"
    [] status = 400 -> "HTTP 400"
    [] status = 404 -> "HTTP 404"
    [] status = 429 -> "HTTP 429"
    [] status = 500 -> "HTTP 500"
    [] status = 502 -> "HTTP 502"
    [] status = 503 -> "HTTP 503"
    [] OTHER -> "HTTP 504"

\* the catch clause of an adapter
ErrorMatch(source) == Match(source, "error", FZero, Expl("error: exception"), Undefined)

HttpError(source, text, status) ==
  Match(source, "error", FZero, <<text, HttpText(status)>>, Undefined)

NotFound(source, score, text) == Match(source, "not_found", score, Expl(text), Undefined)

\* the authors array built from a record's author list, else ref.authors
AuthorsPatch(ref, item) ==
  IF Truthy(item.author) THEN Authors(item.author.s) ELSE ref.authors

\* x || ""
OrEmpty(v) == Or(v, Str(<<>>))

\* what scoreCandidate is given by matchCrossref
CrossrefCandidate(item) ==
  [title |-> item.title, doi |-> item.doi, year |-> OrEmpty(item.year),
   firstAuthorLastName |-> OrEmpty(item.author)]

CrossrefPatch(ref, item) ==
  [title |-> Or(item.title, ref.title),
   DOI |-> Or(Str(normalizeDOI(item.doi)), ref.DOI),
   url |-> Or(item.url, ref.url),
   authors |-> AuthorsPatch(ref, item),
   ISBN |-> item.isbn,
   publisher |-> item.publisher,
   year |-> Or(OrEmpty(item.year), ref.year),
   date |-> Or(OrEmpty(item.year), ref.date)]

\* the identifier lookup of matchCrossref, from the answer of requestJsonWithRetry on
CrossrefByDoi(ref, resp) ==
  IF resp.status = 404 THEN NotFound("crossref", FZero, "DOI not found")
  ELSE IF resp.status # 200 THEN HttpError("crossref", "request failed", resp.status)
  ELSE IF resp.body.kind = "garbage" THEN ErrorMatch("crossref")
  ELSE LET item == IF ItemsOf(resp) = <<>> THEN EmptyItem ELSE Head(ItemsOf(resp))
           cand == CrossrefCandidate(item)
       IN IF scoreCandidateThrows(ref, cand) THEN ErrorMatch("crossref")
          ELSE LET sc == scoreCandidate(ref, cand)
               IN IF sc.doiMismatch
                  THEN Match("crossref", "invalid", FZero, Expl("DOI resolves, but DOI mismatch"), item.url)
                  ELSE IF FGeq(sc.score, Threshold)
                  THEN Validated("crossref", sc.score, Expl("matched"), item.url, CrossrefPatch(ref, item))
                  ELSE Match("crossref", "invalid", sc.score,
                             Expl("DOI resolves, but title/author mismatch"), item.url)

\* the bibliographic search of matchCrossref
CrossrefBySearch(ref, resp) ==
  IF resp.status # 200 THEN HttpError("crossref", "search failed", resp.status)
  ELSE IF resp.body.kind = "garbage" THEN ErrorMatch("crossref")
  ELSE LET items == ItemsOf(resp)
       IN IF items = <<>> THEN NotFound("crossref", FZero, "no results")
          ELSE IF \E ix \in DOMAIN items : scoreCandidateThrows(ref, CrossrefCandidate(items[ix]))
          THEN ErrorMatch("crossref")
          ELSE LET scores == [ix \in DOMAIN items |-> scoreCandidate(ref, CrossrefCandidate(items[ix])).score]
                   b == BestIndex(scores, 1, 0)
               IN IF FGeq(scores[b], Threshold)
                  THEN Validated("crossref", scores[b], Expl("matched"), items[b].url,
                                 CrossrefPatch(ref, items[b]))
                  ELSE NotFound("crossref", scores[b], "best score too low")

\* matchCrossref(ref) once its request has been answered (or has thrown)
matchCrossref(ref, resp) ==
  IF resp.threw THEN ErrorMatch("crossref")
  ELSE IF normalizeDOI(ref.DOI) # <<>> THEN CrossrefByDoi(ref, resp)
  ELSE CrossrefBySearch(ref, resp)

\* the last blank-separated word of a display name: name.split(" ").slice(-1)[0]
RECURSIVE LastWord(_)
LastWord(str) ==
  IF \E ix \in DOMAIN str : str[ix] = " "
  THEN LastWord(Drop(str, CHOOSE ix \in DOMAIN str : str[ix] = " " /\ \A j \in 1..(ix - 1) : str[j] # " "))
  ELSE str

\* work.doi.replace(/^https?:\/\/doi\.org\//i, "") for a string, "" otherwise
OpenAlexDoi(item) ==
  IF ~IsString(item.doi) THEN Str(<<>>)
  ELSE IF StartsWith(ToLower(item.doi.s), HttpsPrefix) THEN Str(Drop(item.doi.s, Len(HttpsPrefix)))
  ELSE IF StartsWith(ToLower(item.doi.s), HttpPrefix) THEN Str(Drop(item.doi.s, Len(HttpPrefix)))
  ELSE item.doi

OpenAlexCandidate(item) ==
  [title |-> OrEmpty(item.title), doi |-> OpenAlexDoi(item), year |-> OrEmpty(item.year),
   firstAuthorLastName |-> Str(LastWord(OrEmpty(item.author).s))]

\* the patch of matchOpenAlex; the last name of an author is the last word of
\* the display name
OpenAlexPatch(ref, item) ==
  [title |-> Or(OrEmpty(item.title), ref.title),
   DOI |-> Or(OpenAlexDoi(item), ref.DOI),
   url |-> Or(item.url, ref.url),
   authors |-> IF Truthy(item.author) /\ Trim(item.author.s) # <<>>
               THEN Authors(LastWord(TrimRight(item.author.s))) ELSE ref.authors,
   year |-> Or(OrEmpty(item.year), ref.year),
   date |-> Or(OrEmpty(item.year), ref.date)]

OpenAlexByDoi(ref, resp) ==
  IF resp.status = 404 THEN NotFound("openalex", FZero, "DOI not found")
  ELSE IF resp.status # 200 THEN HttpError("openalex", "request failed", resp.status)
  ELSE IF resp.body.kind = "garbage" THEN ErrorMatch("openalex")
  ELSE LET item == IF ItemsOf(resp) = <<>> THEN EmptyItem ELSE Head(ItemsOf(resp))
           cand == OpenAlexCandidate(item)
       IN IF scoreCandidateThrows(ref, cand) THEN ErrorMatch("openalex")
          ELSE LET sc == scoreCandidate(ref, cand)
               IN IF sc.doiMismatch
                  THEN Match("openalex", "invalid", FZero, Expl("DOI resolves, but DOI mismatch"), item.url)
                  ELSE IF FGeq(sc.score, Threshold)
                  THEN Validated("openalex", sc.score, Expl("matched"), item.url, OpenAlexPatch(ref, item))
                  ELSE Match("openalex", "invalid", sc.score,
                             Expl("DOI resolves, but title/author mismatch"), item.url)

OpenAlexBySearch(ref, resp) ==
  IF resp.status # 200 THEN HttpError("openalex", "search failed", resp.status)
  ELSE IF resp.body.kind = "garbage" THEN ErrorMatch("openalex")
  ELSE LET items == ItemsOf(resp)
       IN IF items = <<>> THEN NotFound("openalex", FZero, "no results")
          ELSE IF \E ix \in DOMAIN items : scoreCandidateThrows(ref, OpenAlexCandidate(items[ix]))
          THEN ErrorMatch("openalex")
          ELSE LET scores == [ix \in DOMAIN items |-> scoreCandidate(ref, OpenAlexCandidate(items[ix])).score]
                   b == BestIndex(scores, 1, 0)
               IN IF FGeq(scores[b], Threshold)
                  THEN Validated("openalex", scores[b], Expl("matched"), items[b].url,
                                 OpenAlexPatch(ref, items[b]))
                  ELSE NotFound("openalex", scores[b], "best score too low")

\* matchOpenAlex(ref) once its request has been answered (or has thrown)
matchOpenAlex(ref, resp) ==
  IF resp.threw THEN ErrorMatch("openalex")
  ELSE IF normalizeDOI(ref.DOI) # <<>> THEN OpenAlexByDoi(ref, resp)
  ELSE OpenAlexBySearch(ref, resp)

\* ref.title || "" handed to normalizeText throws when the title is no string
TitleThrows(ref) == NotAString(ref.title)

\* .filter((t) => t.length >= 3)
RECURSIVE LongOnly(_)
LongOnly(toks) ==
  IF toks = <<>> THEN <<>>
  ELSE IF Len(Head(toks)) >= 3 THEN <<Head(toks)>> \o LongOnly(Tail(toks))
  ELSE LongOnly(Tail(toks))

\* the significant title tokens of matchLoC and matchGbvK10plus
LongTokens(ref) == LongOnly(normalizeTokens(StringOrEmpty(ref.title)))

\* 0.9 * a + 0.1 * b
NineToOne(a, b) == FAdd(FMul(Frac(9, 10), a), FMul(Frac(1, 10), b))

LobidScore(ref, item) ==
  LET score == IF Truthy(item.title) THEN diceCoefficient(StringOrEmpty(ref.title), item.title.s) ELSE FZero
      yearScore == IF extractYear(ref) # <<>> /\ Truthy(item.year)
                   THEN (IF extractYear(ref) = item.year.s THEN FOne ELSE FZero)
                   ELSE FZero
  IN NineToOne(score, yearScore)

TitleYearPatch(ref, item) ==
  [title |-> Or(item.title, ref.title),
   year |-> Or(OrEmpty(item.year), ref.year),
   date |-> Or(OrEmpty(item.year), ref.date)]

\* matchLobid(ref) once its request has been answered (or has thrown)
matchLobid(ref, resp) ==
  IF resp.threw THEN ErrorMatch("lobid")
  ELSE IF resp.status # 200 THEN HttpError("lobid", "search failed", resp.status)
  ELSE IF resp.body.kind = "garbage" THEN ErrorMatch("lobid")
  ELSE LET items == ItemsOf(resp)
       IN IF items = <<>> THEN NotFound("lobid", FZero, "no results")
          ELSE LET scores == [ix \in DOMAIN items |-> LobidScore(ref, items[ix])]
                   b == BestIndex(scores, 1, 0)
               IN IF FGeq(scores[b], Threshold)
                  THEN Validated("lobid", scores[b], Expl("matched"), items[b].url,
                                 TitleYearPatch(ref, items[b]))
                  ELSE NotFound("lobid", scores[b], "best score too low")

\* contributors[0].split(",")[0]: the text before the first comma
BeforeComma(str) ==
  IF \E ix \in DOMAIN str : str[ix] = ","
  THEN SubSeq(str, 1, (CHOOSE ix \in DOMAIN str : str[ix] = "," /\ \A j \in 1..(ix - 1) : str[j] # ",") - 1)
  ELSE str

LocCandidate(item) ==
  [title |-> OrEmpty(item.title), doi |-> item.doi, year |-> OrEmpty(item.year),
   firstAuthorLastName |-> Str(BeforeComma(OrEmpty(item.author).s))]

\* matchLoC(ref) once its request has been answered (or has thrown)
matchLoC(ref, resp) ==
  IF resp.threw THEN ErrorMatch("loc")
  ELSE IF resp.status # 200 THEN HttpError("loc", "search failed", resp.status)
  ELSE IF resp.body.kind = "garbage" THEN ErrorMatch("loc")
  ELSE LET items == ItemsOf(resp)
       IN IF items = <<>> THEN NotFound("loc", FZero, "no results")
          ELSE IF \E ix \in DOMAIN items : scoreCandidateThrows(ref, LocCandidate(items[ix]))
          THEN ErrorMatch("loc")
          ELSE LET scores == [ix \in DOMAIN items |-> scoreCandidate(ref, LocCandidate(items[ix])).score]
                   b == BestIndex(scores, 1, 0)
               IN IF FGeq(scores[b], Threshold)
                  THEN Validated("loc", scores[b], Expl("matched"), items[b].url,
                                 TitleYearPatch(ref, items[b]))
                  ELSE NotFound("loc", scores[b], "best score too low")

\* item.creator.split(",")[0] || item.creator.split(" ").slice(-1)[0] || ""
GbvSurname(item) ==
  LET creator == OrEmpty(item.author).s
  IN IF BeforeComma(creator) # <<>> THEN BeforeComma(creator) ELSE LastWord(creator)

GbvScore(ref, item) ==
  LET titleScore == diceCoefficient(StringOrEmpty(ref.title), OrEmpty(item.title).s)
      authorScore == IF firstAuthorLastName(ref) # <<>> /\ GbvSurname(item) # <<>>
                     THEN (IF firstAuthorLastName(ref) = normalizeText(GbvSurname(item))
                           THEN FOne ELSE FZero)
                     ELSE FZero
  IN NineToOne(titleScore, authorScore)

\* the url of the SRU request, which two of the matches of matchGbvK10plus carry
GbvRequestUrl == Str(<<"s", "r", "u">>)

GbvPatch(ref, item) ==
  [title |-> Or(OrEmpty(item.title), ref.title),
   year |-> Or(OrEmpty(item.year), ref.year),
   date |-> Or(OrEmpty(item.year), ref.date),
   ISBN |-> Or(OrEmpty(item.isbn), ref.ISBN)]

\* matchGbvK10plus(ref) once Zotero.HTTP.request has answered (or has thrown);
\* a body that is no XML parses to a document without records
matchGbvK10plus(ref, resp) ==
  IF resp.threw THEN ErrorMatch("gbv")
  ELSE IF resp.status # 200
  THEN Match("gbv", "error", FZero, <<"search failed", HttpText(resp.status)>>, GbvRequestUrl)
  ELSE IF resp.body.kind = "none"
  THEN Match("gbv", "error", FZero, Expl("empty SRU response"), Undefined)
  ELSE LET items == ItemsOf(resp)
       IN IF items = <<>> THEN NotFound("gbv", FZero, "no results")
          ELSE LET scores == [ix \in DOMAIN items |-> GbvScore(ref, items[ix])]
                   b == BestIndex(scores, 1, 0)
               IN IF FGeq(scores[b], Threshold)
                  THEN Validated("gbv", scores[b], Expl("matched"), items[b].url,
                                 GbvPatch(ref, items[b]))
                  ELSE Match("gbv", "not_found", scores[b], Expl("best score too low"), GbvRequestUrl)

\* the SPARQL lookup scoring the binding with a DOI of its own
WikidataByDoiOfBinding(ref, resp) ==
  IF resp.status # 200 THEN HttpError("wikidata", "SPARQL failed", resp.status)
  ELSE IF resp.body.kind = "garbage" THEN ErrorMatch("wikidata")
  ELSE IF ItemsOf(resp) = <<>> THEN NotFound("wikidata", FZero, "no DOI match")
  ELSE LET binding == Head(ItemsOf(resp))
           title == Or(binding.title, ref.title)
           cand == [title |-> title, doi |-> binding.doi, year |-> OrEmpty(binding.year),
                    firstAuthorLastName |-> Undefined]
       IN IF scoreCandidateThrows(ref, cand) THEN ErrorMatch("wikidata")
          ELSE LET sc == scoreCandidate(ref, cand)
               IN IF FGeq(sc.score, Threshold)
                  THEN Validated("wikidata", FOne, Expl("DOI match"), binding.url,
                                 [title |-> title, DOI |-> Str(normalizeDOI(ref.DOI)),
                                  year |-> Or(OrEmpty(binding.year), ref.year),
                                  date |-> Or(OrEmpty(binding.year), ref.date)])
                  ELSE Match("wikidata", "invalid", sc.score,
                             Expl("DOI match but title mismatch"), binding.url)

\* the SPARQL lookup of matchWikidata: the candidate is scored against the
\* reference's own DOI
WikidataByDoi(ref, resp) ==
  IF resp.status # 200 THEN HttpError("wikidata", "SPARQL failed", resp.status)
  ELSE IF resp.body.kind = "garbage" THEN ErrorMatch("wikidata")
  ELSE IF ItemsOf(resp) = <<>> THEN NotFound("wikidata", FZero, "no DOI match")
  ELSE LET binding == Head(ItemsOf(resp))
           doi == Str(normalizeDOI(ref.DOI))
           title == Or(binding.title, ref.title)
           cand == [title |-> title, doi |-> doi, year |-> OrEmpty(binding.year),
                    firstAuthorLastName |-> Undefined]
       IN IF scoreCandidateThrows(ref, cand) THEN ErrorMatch("wikidata")
          ELSE LET sc == scoreCandidate(ref, cand)
               IN IF FGeq(sc.score, Threshold)
                  THEN Validated("wikidata", FOne, Expl("DOI match"), binding.url,
                                 [title |-> title, DOI |-> doi,
                                  year |-> Or(OrEmpty(binding.year), ref.year),
                                  date |-> Or(OrEmpty(binding.year), ref.date)])
                  ELSE Match("wikidata", "invalid", sc.score,
                             Expl("DOI match but title mismatch"), binding.url)

WikidataLabelScore(ref, item) ==
  LET titleScore == diceCoefficient(StringOrEmpty(ref.title), OrEmpty(item.title).s)
      boost == IF item.scholarly THEN Frac(5, 100) ELSE FZero
  IN FMin(FOne, FAdd(titleScore, boost))

\* the label search of matchWikidata
WikidataBySearch(ref, resp) ==
  IF resp.status # 200 THEN HttpError("wikidata", "search failed", resp.status)
  ELSE IF resp.body.kind = "garbage" \/ (ItemsOf(resp) # <<>> /\ TitleThrows(ref))
  THEN ErrorMatch("wikidata")
  ELSE LET items == ItemsOf(resp)
       IN IF items = <<>> THEN NotFound("wikidata", FZero, "no results")
          ELSE LET scores == [ix \in DOMAIN items |-> WikidataLabelScore(ref, items[ix])]
                   b == BestIndex(scores, 1, 0)
               IN IF FGeq(scores[b], LabelThreshold)
                  THEN Validated("wikidata", scores[b], Expl("matched by label"), items[b].url,
                                 [title |-> Or(items[b].title, ref.title)])
                  ELSE NotFound("wikidata", scores[b], "best score too low")

\* matchWikidata(ref) once its request has been answered (or has thrown)
matchWikidata(ref, resp) ==
  IF resp.threw THEN ErrorMatch("wikidata")
  ELSE IF normalizeDOI(ref.DOI) # <<>> THEN WikidataByDoi(ref, resp)
  ELSE WikidataBySearch(ref, resp)

-----------------------------------------------------------------------------
(* What an adapter does before its request *)

Sources == <<"crossref", "openalex", "lobid", "loc", "gbv", "wikidata">>

Request(lookup, viaRetry) == [kind |-> "request", lookup |-> lookup, viaRetry |-> viaRetry]
EarlyReturn(match) == [kind |-> "return", match |-> match]
Throws == [kind |-> "throw"]

\* the adapters of Crossref, OpenAlex and Wikidata starting with the search
\* whatever the DOI
PreRequestBySearch(source, ref) ==
  CASE source \in {"crossref", "openalex", "wikidata"} ->
         IF normalizeDOIThrows(ref.DOI) THEN Throws ELSE Request("search", TRUE)
    [] source = "lobid" ->
         IF TitleThrows(ref) THEN EarlyReturn(ErrorMatch("lobid")) ELSE Request("search", TRUE)
    [] source = "loc" ->
         IF TitleThrows(ref) THEN EarlyReturn(ErrorMatch("loc")) ELSE Request("search", TRUE)
    [] OTHER ->
         IF TitleThrows(ref) THEN EarlyReturn(ErrorMatch("gbv")) ELSE Request("search", FALSE)

\* the adapter called for a source, up to its first await: it throws to its
\* caller (normalizeDOI stands before the try), returns a match without any
\* request, or issues the request of an identifier lookup or of a search
PreRequest(source, ref) ==
  CASE source \in {"crossref", "openalex"} ->
         IF normalizeDOIThrows(ref.DOI) THEN Throws
         ELSE IF normalizeDOI(ref.DOI) # <<>> THEN Request("doi", TRUE)
         ELSE Request("search", TRUE)
    [] source = "lobid" ->
         IF TitleThrows(ref) THEN EarlyReturn(ErrorMatch("lobid"))
         ELSE IF normalizeTokens(StringOrEmpty(ref.title)) = <<>> /\ firstAuthorLastName(ref) = <<>>
         THEN EarlyReturn(NotFound("lobid", FZero, "missing title"))
         ELSE Request("search", TRUE)
    [] source = "loc" ->
         IF TitleThrows(ref) THEN EarlyReturn(ErrorMatch("loc"))
         ELSE IF LongTokens(ref) = <<>> THEN EarlyReturn(NotFound("loc", FZero, "missing title"))
         ELSE Request("search", TRUE)
    [] source = "gbv" ->
         IF TitleThrows(ref) THEN EarlyReturn(ErrorMatch("gbv"))
         ELSE IF LongTokens(ref) = <<>> THEN EarlyReturn(NotFound("gbv", FZero, "missing title"))
         ELSE Request("search", FALSE)
    [] OTHER ->
         IF normalizeDOIThrows(ref.DOI) THEN Throws
         ELSE IF normalizeDOI(ref.DOI) # <<>> THEN Request("doi", TRUE)
         ELSE IF isBlank(ref.title)
         THEN EarlyReturn(NotFound("wikidata", FZero, "no title to search"))
         ELSE Request("search", TRUE)

\* the adapter of a source, from the answer to its request on
AdapterResult(source, ref, resp) ==
  CASE source = "crossref" -> matchCrossref(ref, resp)
    [] source = "openalex" -> matchOpenAlex(ref, resp)
    [] source = "lobid" -> matchLobid(ref, resp)
    [] source = "loc" -> matchLoC(ref, resp)
    [] source = "gbv" -> matchGbvK10plus(ref, resp)
    [] OTHER -> matchWikidata(ref, resp)

-----------------------------------------------------------------------------
(* The retrying request helper *)

\* maxAttempts = 3 of requestJsonWithRetry
DefaultMaxAttempts == 3
\* the statuses requestJsonWithRetry retries
TransientStatuses == {429, 500, 502, 503, 504}
\* successCodes of requestJsonWithRetry: Zotero.HTTP.request throws on any other status
HelperSuccessCodes == {200, 404, 429, 500, 502, 503, 504}
\* successCodes of the request of matchGbvK10plus
GbvSuccessCodes == {200, 400, 404, 429, 500, 502, 503, 504}
BackoffBase == 2000
BackoffCap == 15000

RECURSIVE Pow2(_)
Pow2(n) == IF n = 0 THEN 1 ELSE 2 * Pow2(n - 1)

Min(a, b) == IF a <= b THEN a ELSE b

\* backoffMs without the cap of Math.min
backoffMsUncapped(attempt) == BackoffBase * Pow2(attempt - 1)

\* backoffMs after the attempt-th request
backoffMs(attempt) == Min(BackoffBase * Pow2(attempt - 1), BackoffCap)

\* the test with attempt > maxAttempts
HelperReturnsOneLater(status, attempt, maxAttempts) ==
  status \notin TransientStatuses \/ attempt > maxAttempts

\* the test that ends the loop of requestJsonWithRetry
HelperReturns(status, attempt, maxAttempts) ==
  status \notin TransientStatuses \/ attempt >= maxAttempts

-----------------------------------------------------------------------------
(* Bounds and the inputs of the model *)

\* references in a batch
MaxRefs == 2
\* adapter calls in a batch (references times enabled adapters)
MaxCalls == 2
\* records in one answer of a provider
MaxCands == 2

DoiA == <<"1", "0", ".", "1", "/", "a">>
DoiB == <<"1", "0", ".", "1", "/", "b">>
Y2020 == <<"2", "0", "2", "0">>
TitleAbc == <<"A", "b", "c">>
TitleLower == <<"a", "b", "c">>
TitleWrong == <<"a", "b", "d">>
NameXu == <<"X", "u">>

BlankRef ==
  [itemType |-> Str(<<"b", "o", "o", "k">>), title |-> Undefined, authors |-> Undefined,
   date |-> Undefined, year |-> Undefined, DOI |-> Undefined, url |-> Undefined,
   publisher |-> Undefined, ISBN |-> Undefined]

\* the references as the extraction step parsed them
RawRefs ==
  << \* a wrong title with the right DOI, the year the literal "null"
     [BlankRef EXCEPT !.title = Str(TitleWrong), !.DOI = Str(<<"d", "o", "i", ":">> \o DoiA),
                      !.year = Str(<<"n", "u", "l", "l">>)],
     \* no DOI; title, first author, year and publisher populated
     [BlankRef EXCEPT !.title = Str(TitleAbc), !.authors = Authors(NameXu),
                      !.year = Str(Y2020), !.publisher = Str(<<"p">>)],
     \* an empty DOI, a title only
     [BlankRef EXCEPT !.title = Str(TitleAbc), !.DOI = Str(<<>>)],
     \* a DOI that is a number
     [BlankRef EXCEPT !.title = Str(TitleAbc), !.DOI = Num(<<"7">>)],
     \* a title that is a number
     [BlankRef EXCEPT !.title = Num(<<"7">>)],
     \* no title
     [BlankRef EXCEPT !.title = Null] >>

RefList == [j \in DOMAIN RawRefs |-> normalizeReference(RawRefs[j])]

\* the references of RefList at the positions S, in the order of RefList
RECURSIVE Pick(_)
Pick(S) ==
  IF S = {} THEN <<>>
  ELSE LET m == CHOOSE x \in S : \A y \in S : x <= y
       IN <<RefList[m]>> \o Pick(S \ {m})

Batches == {Pick(S) : S \in {T \in SUBSET DOMAIN RefList : Cardinality(T) <= MaxRefs}}

\* the records the providers hold
CandPool ==
  { [title |-> Str(TitleLower), doi |-> Str(DoiA), year |-> Str(Y2020), author |-> Str(NameXu),
     url |-> Str(<<"u">>), publisher |-> Str(<<"q">>), isbn |-> Undefined, scholarly |-> TRUE],
    [title |-> Str(TitleLower), doi |-> Str(DoiB), year |-> Undefined, author |-> Undefined,
     url |-> Undefined, publisher |-> Undefined, isbn |-> Undefined, scholarly |-> FALSE],
    [title |-> Str(TitleLower), doi |-> Undefined, year |-> Str(Y2020), author |-> Undefined,
     url |-> Undefined, publisher |-> Str(<<>>), isbn |-> Str(<<"n", "u", "l", "l">>), scholarly |-> FALSE] }

SeqsUpTo(S, n) == UNION {[1..m -> S] : m \in 0..n}

IsInjective(seq) == \A x, y \in DOMAIN seq : seq[x] = seq[y] => x = y

\* an answer without a body
NoBody == [kind |-> "none", items |-> <<>>]

\* an answer holds up to MaxCands different records, in any order
Bodies ==
  {[kind |-> "records", items |-> its] :
     its \in {q \in SeqsUpTo(CandPool, MaxCands) : IsInjective(q)}}
    \cup {NoBody, [kind |-> "garbage", items |-> <<>>]}

\* the statuses the providers of the model answer with
ProviderStatuses == {200, 400, 404, 503}

\* the adapters read the body of a 200 answer only: any other answer is taken
\* with one body
BodiesOf(status) == IF status = 200 THEN Bodies ELSE {NoBody}

SourceSet == {Sources[j] : j \in DOMAIN Sources}

\* what a request of an adapter ends with: it throws, or it is answered
Responses ==
  {[threw |-> TRUE, status |-> 0, body |-> NoBody]}
    \cup UNION {{[threw |-> FALSE, status |-> st, body |-> b] : b \in BodiesOf(st)} :
                  st \in ProviderStatuses}

\* AdapterResult, tabulated once over the inputs of the model
AdapterTable ==
  [x \in SourceSet \X {RefList[j] : j \in DOMAIN RefList} \X Responses |->
     AdapterResult(x[1], x[2], x[3])] @@ <<>>

PrefsOf(enabled, enrich, on) ==
  [enabled |-> enabled, enrichFromIndexes |-> enrich,
   crossref |-> "crossref" \in on, openalex |-> "openalex" \in on, lobid |-> "lobid" \in on,
   loc |-> "loc" \in on, gbv |-> "gbv" \in on, wikidata |-> "wikidata" \in on]

EnabledSources(p) == {src \in SourceSet : p[src]}

-----------------------------------------------------------------------------
(* validateAndEnrich as a state machine *)

VARIABLES
  refs,         \* the argument refs
  prefs,        \* the argument prefs
  pc,           \* where validateAndEnrich stands
  i,            \* the loop index, from 1
  k,            \* the position in Sources of the next adapter statement
  matches,      \* matches of the current reference
  call,         \* the adapter call in progress, or the last one
  last,         \* what the last completed iteration selected and produced
  mergedRefs,
  validations,
  progressLog,  \* the calls of onProgress
  result,       \* the value validateAndEnrich resolved to
  unit          \* a call of one of the pure functions: its arguments and its value

vars == <<refs, prefs, pc, i, k, matches, call, last, mergedRefs, validations, progressLog,
          result, unit>>

NoMatch == Match("none", "error", FZero, Expl(""), Undefined)

NoCall ==
  [source |-> "none", lookup |-> "none", viaRetry |-> FALSE, maxAttempts |-> 0,
   attempt |-> 0, statuses |-> <<>>, delays |-> <<>>, outcome |-> "none"]

NoLast ==
  [defined |-> FALSE, ref |-> BlankRef, matches |-> <<>>, hasBest |-> FALSE, best |-> NoMatch,
   forceOverwrite |-> FALSE, updated |-> BlankRef, validation |-> EmptyValidation]

NoResult == [references |-> <<>>, validationResults |-> <<>>]

NoUnit == [op |-> "none"]

Init ==
  /\ refs \in Batches
  /\ \E enabled \in BOOLEAN, enrich \in BOOLEAN, on \in SUBSET SourceSet :
       /\ Len(refs) * Cardinality(on) <= MaxCalls
       /\ prefs = PrefsOf(enabled, enrich, on)
  /\ pc = "call"
  /\ i = 1
  /\ k = 1
  /\ matches = <<>>
  /\ call = NoCall
  /\ last = NoLast
  /\ mergedRefs = <<>>
  /\ validations = <<>>
  /\ progressLog = <<>>
  /\ result = NoResult
  /\ unit = NoUnit

DigitChar(n) == CASE n = 0 -> "0" [] n = 1 -> "1" [] n = 2 -> "2" [] n = 3 -> "3" [] n = 4 -> "4"
                  [] n = 5 -> "5" [] n = 6 -> "6" [] n = 7 -> "7" [] n = 8 -> "8" [] OTHER -> "9"

\* ref.title || `Reference ${i + 1}`
ProgressTitle(ref, n) ==
  IF Truthy(ref.title) THEN ref.title
  ELSE Str(<<"R", "e", "f", "e", "r", "e", "n", "c", "e", " ", DigitChar(n)>>)

\* the loop test: the next reference, or the return of the two lists
LoopOrReturn(next, refsOut, valsOut) ==
  IF next <= Len(refs)
  THEN /\ pc' = "progress"
       /\ result' = result
  ELSE /\ pc' = "returned"
       /\ result' = [references |-> refsOut, validationResults |-> valsOut]

\* the call without the test of prefs.enabled
StartWithoutSwitch ==
  /\ pc = "call"
  /\ LoopOrReturn(1, <<>>, <<>>)
  /\ UNCHANGED <<unit, refs, prefs, i, k, matches, call, last, mergedRefs, validations, progressLog>>

\* the call of validateAndEnrich up to its loop
Start ==
  /\ pc = "call"
  /\ IF ~prefs.enabled
     THEN /\ pc' = "returned"
          /\ result' = [references |-> refs,
                        validationResults |-> [j \in DOMAIN refs |-> EmptyValidation]]
     ELSE LoopOrReturn(1, <<>>, <<>>)
  /\ UNCHANGED <<unit, refs, prefs, i, k, matches, call, last, mergedRefs, validations, progressLog>>

\* the six statements if (prefs.source) matches.push(await matchSource(ref)):
\* the position of the first one after position j whose flag is on, or
\* Len(Sources) + 1 when the tests left are all false
NextAdapter(j) ==
  IF \E n \in (j + 1)..Len(Sources) : prefs[Sources[n]]
  THEN CHOOSE n \in (j + 1)..Len(Sources) :
         prefs[Sources[n]] /\ \A m \in (j + 1)..(n - 1) : ~prefs[Sources[m]]
  ELSE Len(Sources) + 1

\* control goes to the adapter statement at position j, or past the last one
\* to the selection of the best match
GoToAdapter(j) ==
  /\ k' = j
  /\ pc' = IF j > Len(Sources) THEN "reconcile" ELSE "adapter"

\* the head of an iteration without the call of onProgress
ProgressSilent ==
  /\ pc = "progress"
  /\ matches' = <<>>
  /\ last' = NoLast
  /\ GoToAdapter(NextAdapter(0))
  /\ UNCHANGED <<unit, refs, prefs, i, call, mergedRefs, validations, result, progressLog>>

\* the head of an iteration: onProgress, const matches = [], the flag tests up
\* to the first adapter that is on; the locals of the iteration before are gone
Progress ==
  /\ pc = "progress"
  /\ progressLog' = Append(progressLog,
                           [current |-> i, total |-> Len(refs), message |-> ProgressTitle(refs[i], i)])
  /\ matches' = <<>>
  /\ last' = NoLast
  /\ GoToAdapter(NextAdapter(0))
  /\ UNCHANGED <<unit, refs, prefs, i, call, mergedRefs, validations, result>>

NewCall(source, pre) ==
  [source |-> source,
   lookup |-> IF pre.kind = "request" THEN pre.lookup ELSE "none",
   viaRetry |-> IF pre.kind = "request" THEN pre.viaRetry ELSE FALSE,
   maxAttempts |-> IF pre.kind = "request" /\ pre.viaRetry THEN DefaultMaxAttempts ELSE 1,
   attempt |-> IF pre.kind = "request" THEN 1 ELSE 0,
   statuses |-> <<>>, delays |-> <<>>,
   outcome |-> CASE pre.kind = "request" -> "pending"
                 [] pre.kind = "return" -> "matched"
                 [] OTHER -> "threw"]

\* matches.push(await matchX(ref)) up to the first request of the adapter
InvokeAdapter ==
  /\ pc = "adapter"
  /\ prefs[Sources[k]]
  /\ LET pre == PreRequest(Sources[k], refs[i])
     IN /\ call' = NewCall(Sources[k], pre)
        /\ CASE pre.kind = "throw" ->
                  /\ pc' = "threw"
                  /\ UNCHANGED <<k, matches>>
             [] pre.kind = "return" ->
                  /\ matches' = Append(matches, pre.match)
                  /\ GoToAdapter(NextAdapter(k))
             [] OTHER ->
                  /\ pc' = "http"
                  /\ UNCHANGED <<k, matches>>
  /\ UNCHANGED <<unit, refs, prefs, i, last, mergedRefs, validations, progressLog, result>>

\* the adapter resumes with the answer and resolves to a match
Settle(resp) ==
  /\ matches' = Append(matches, AdapterTable[<<Sources[k], refs[i], resp>>])
  /\ GoToAdapter(NextAdapter(k))

\* Zotero.HTTP.request throws (timeout, network error, a status outside
\* successCodes): the helper lets it through, the adapter's catch makes it a match
HttpThrow ==
  /\ pc = "http"
  /\ call' = [call EXCEPT !.outcome = "matched", !.statuses = Append(@, 0)]
  /\ Settle([threw |-> TRUE, status |-> 0, body |-> NoBody])
  /\ UNCHANGED <<unit, refs, prefs, i, last, mergedRefs, validations, progressLog, result>>

\* Zotero.HTTP.request answers with a status of successCodes: the helper
\* sleeps before another attempt, or returns and the adapter resolves
HttpRespond ==
  /\ pc = "http"
  /\ \E status \in ProviderStatuses :
     \E body \in BodiesOf(status) :
       /\ status \in (IF call.viaRetry THEN HelperSuccessCodes ELSE GbvSuccessCodes)
       /\ IF call.viaRetry /\ ~HelperReturns(status, call.attempt, call.maxAttempts)
          THEN /\ call' = [call EXCEPT !.statuses = Append(@, status),
                                       !.delays = Append(@, backoffMs(call.attempt)),
                                       !.outcome = "sleeping"]
               /\ pc' = "sleep"
               /\ UNCHANGED <<k, matches>>
          ELSE /\ call' = [call EXCEPT !.statuses = Append(@, status), !.outcome = "matched"]
               /\ Settle([threw |-> FALSE, status |-> status, body |-> body])
  /\ UNCHANGED <<unit, refs, prefs, i, last, mergedRefs, validations, progressLog, result>>

\* await sleep(backoffMs) is over: attempt++ and the next request
Backoff ==
  /\ pc = "sleep"
  /\ call' = [call EXCEPT !.attempt = @ + 1, !.outcome = "pending"]
  /\ pc' = "http"
  /\ UNCHANGED <<unit, refs, prefs, i, k, matches, last, mergedRefs, validations, progressLog, result>>

RECURSIVE MergeAll(_, _)
\* for (const m of matches) validation = mergeValidation(validation, ...)
MergeAll(validation, ms) ==
  IF ms = <<>> THEN validation
  ELSE MergeAll(mergeValidation(validation, buildValidationFromMatch(Head(ms))), Tail(ms))

\* const best = matches.slice().sort(...)[0]
BestOf(ms) == SortMatches(ms)[1]

\* every match's patch folded into one: for a key, the value of the first match
\* in sorted order that has a non-blank one
PatchOfAllMatches(ms) ==
  [key \in UNION {DOMAIN ms[j].patch : j \in DOMAIN ms} |->
     IF \E j \in DOMAIN ms : key \in DOMAIN SortMatches(ms)[j].patch
                              /\ ~isBlank(SortMatches(ms)[j].patch[key])
     THEN SortMatches(ms)[CHOOSE j \in DOMAIN ms :
                            /\ key \in DOMAIN SortMatches(ms)[j].patch
                            /\ ~isBlank(SortMatches(ms)[j].patch[key])
                            /\ \A h \in 1..(j - 1) :
                                  \/ key \notin DOMAIN SortMatches(ms)[h].patch
                                  \/ isBlank(SortMatches(ms)[h].patch[key])].patch[key]
     ELSE Undefined]

\* best.patch, the patch handed to applyPatch
BestPatch(ms) == BestOf(ms).patch

\* the test of forceOverwrite without its score threshold
ForceOverwriteAnyScore(p, best) == p.enrichFromIndexes /\ best.status = "validated"

\* prefs.enrichFromIndexes && best.status === "validated" && best.score >= 0.95
ForceOverwrite(p, best) ==
  p.enrichFromIndexes /\ best.status = "validated" /\ FGeq(best.score, ForceThreshold)

\* the rest of an iteration: best match, validation report, patch, the two pushes
Reconcile ==
  /\ pc = "reconcile"
  /\ LET ref == refs[i]
         hasBest == matches # <<>>
         best == IF hasBest THEN BestOf(matches) ELSE NoMatch
         validation == MergeAll(EmptyValidation, matches)
         force == hasBest /\ best.hasPatch /\ ForceOverwrite(prefs, best)
         updated == IF hasBest /\ best.hasPatch
                    THEN applyPatch(ref, BestPatch(matches), prefs.enrichFromIndexes, force)
                    ELSE ref
     IN /\ last' = [defined |-> TRUE, ref |-> ref, matches |-> matches, hasBest |-> hasBest,
                    best |-> best, forceOverwrite |-> force, updated |-> updated,
                    validation |-> validation]
        /\ mergedRefs' = Append(mergedRefs, updated)
        /\ validations' = Append(validations, validation)
        /\ i' = i + 1
        /\ LoopOrReturn(i + 1, Append(mergedRefs, updated), Append(validations, validation))
  /\ call' = NoCall
  /\ UNCHANGED <<unit, refs, prefs, k, matches, progressLog>>

Next ==
  \/ Start
  \/ Progress
  \/ InvokeAdapter
  \/ HttpThrow
  \/ HttpRespond
  \/ Backoff
  \/ Reconcile

Spec == Init /\ [][Next]_vars

-----------------------------------------------------------------------------
(* applyPatch on its own: a reference and a patch over two keys, one of    *)
(* overwriteKeys and one outside, with blank and populated values          *)

PatchKeys == {"itemType", "title"}

NullText == <<"n", "u", "l", "l">>

\* what a field of the reference holds before the patch
ExistingValues == {Undefined, Str(<<>>), Str(NullText), Str(<<"o">>)}

\* the patch values that count as blank
BlankPatchValues ==
  {Undefined, Null, Str(<<>>), Str(<<" ">>), Str(NullText), Str(<<"N", "U", "L", "L">>),
   Str(<<" ", "N", "u", "l", "l">>)}

PatchValues == BlankPatchValues \cup {Str(<<"n">>)}

Patches == UNION {[K -> PatchValues] : K \in SUBSET PatchKeys}

\* validateAndEnrich is not running
Idle ==
  /\ refs = <<>>
  /\ prefs = PrefsOf(FALSE, FALSE, {})
  /\ pc = "idle"
  /\ i = 1
  /\ k = 1
  /\ matches = <<>>
  /\ call = NoCall
  /\ last = NoLast
  /\ mergedRefs = <<>>
  /\ validations = <<>>
  /\ progressLog = <<>>
  /\ result = NoResult

InitPatch ==
  /\ Idle
  /\ \E ref \in [PatchKeys -> ExistingValues], patch \in Patches,
        enrich \in BOOLEAN, force \in BOOLEAN :
       unit = [op |-> "applyPatch", ref |-> ref, patch |-> patch, enrichFromIndexes |-> enrich,
               forceOverwrite |-> force, done |-> FALSE, value |-> ref]

\* the call applyPatch(ref, patch, enrichFromIndexes, forceOverwrite)
CallApplyPatch ==
  /\ unit.op = "applyPatch"
  /\ ~unit.done
  /\ unit' = [unit EXCEPT !.done = TRUE,
                          !.value = applyPatch(unit.ref, unit.patch, unit.enrichFromIndexes,
                                               unit.forceOverwrite)]
  /\ UNCHANGED <<refs, prefs, pc, i, k, matches, call, last, mergedRefs, validations,
                 progressLog, result>>

NextPatch == CallApplyPatch

SpecPatch == InitPatch /\ [][NextPatch]_vars

PatchReturned == unit.op = "applyPatch" /\ unit.done

\* the patch has a non-blank value for the key
Offers(patch, key) == key \in DOMAIN patch /\ ~isBlank(patch[key])

\* C3: applyPatch with enrichment enabled. Without forceOverwrite a non-blank
\* field keeps its value whatever the patch holds and a blank field takes the
\* non-blank value of the patch; with forceOverwrite a field of the overwritable
\* set takes the non-blank value of the patch even if it was populated, and a
\* field outside the set (itemType) is still filled only when blank.
C3_OverwritePolicy ==
  (PatchReturned /\ unit.enrichFromIndexes) =>
    \A key \in DOMAIN unit.ref :
      IF unit.forceOverwrite /\ key \in overwriteKeys
      THEN Offers(unit.patch, key) => unit.value[key] = unit.patch[key]
      ELSE /\ ~isBlank(unit.ref[key]) => unit.value[key] = unit.ref[key]
           /\ (isBlank(unit.ref[key]) /\ Offers(unit.patch, key)) =>
                unit.value[key] = unit.patch[key]

\* forceOverwrite with both fields populated and both offered another value: the
\* title is replaced, the item type is kept
C3_Witness ==
  /\ PatchReturned
  /\ unit.enrichFromIndexes
  /\ unit.forceOverwrite
  /\ unit.ref = [itemType |-> Str(<<"o">>), title |-> Str(<<"o">>)]
  /\ unit.patch = [itemType |-> Str(<<"n">>), title |-> Str(<<"n">>)]
  /\ unit.value = [itemType |-> Str(<<"o">>), title |-> Str(<<"n">>)]

\* C5: a patch value that is the empty string, whitespace only, null, undefined
\* or the text "null" in any letter case is never written: the field is after
\* applyPatch what it was before, with or without forceOverwrite, blank or
\* populated.
C5_BlankPatchValueNeverWritten ==
  PatchReturned =>
    \A key \in DOMAIN unit.patch :
      unit.patch[key] \in BlankPatchValues => unit.value[key] = unit.ref[key]

\* forceOverwrite, a populated title and the patch value "NULL"
C5_Witness ==
  /\ PatchReturned
  /\ unit.enrichFromIndexes
  /\ unit.forceOverwrite
  /\ "title" \in DOMAIN unit.patch
  /\ unit.patch["title"] = Str(<<"N", "U", "L", "L">>)
  /\ unit.ref["title"] = Str(<<"o">>)
  /\ unit.value["title"] = Str(<<"o">>)

-----------------------------------------------------------------------------
(* The best match (C1) and the source of every written value (C2) *)

MatchSet(ms) == {ms[j] : j \in DOMAIN ms}

\* C1: for a reference with at least one match, the match selected as best is one
\* of its matches, no match of the reference has a better status rank (validated
\* before invalid before not_found before error) whatever its score, and no match
\* of the same status has a strictly higher score.
C1_BestHasBestRankThenScore ==
  (last.defined /\ last.hasBest) =>
    /\ last.best \in MatchSet(last.matches)
    /\ \A m \in MatchSet(last.matches) :
         /\ Rank(last.best) <= Rank(m)
         /\ m.status = last.best.status => ~FGt(m.score, last.best.score)

\* a match of a worse rank has a strictly higher score than the selected one
C1_Witness ==
  /\ last.defined
  /\ last.hasBest
  /\ \E m \in MatchSet(last.matches) :
       Rank(m) > Rank(last.best) /\ FGt(m.score, last.best.score)

\* C2: every field of the reference an iteration pushes equals the field of the
\* input reference or the value the patch of the selected best match has for it;
\* what only the patch of another match holds is never written.
C2_OnlyBestPatchIsWritten ==
  last.defined =>
    /\ mergedRefs[Len(mergedRefs)] = last.updated
    /\ \A key \in DOMAIN last.updated :
         \/ last.updated[key] = last.ref[key]
         \/ /\ last.hasBest
            /\ last.best.hasPatch
            /\ key \in DOMAIN last.best.patch
            /\ last.updated[key] = last.best.patch[key]

\* another match than the best one offers a value for a blank field that the
\* patch of the best match leaves blank, and the field stays as it was
C2_Witness ==
  /\ last.defined
  /\ last.hasBest
  /\ last.best.hasPatch
  /\ prefs.enrichFromIndexes
  /\ \E m \in MatchSet(last.matches), key \in DOMAIN last.ref :
       /\ m # last.best
       /\ m.hasPatch
       /\ key \in DOMAIN m.patch
       /\ ~isBlank(m.patch[key])
       /\ isBlank(last.ref[key])
       /\ key \in DOMAIN last.best.patch => isBlank(last.best.patch[key])
       /\ last.updated[key] = last.ref[key]

-----------------------------------------------------------------------------
(* When a populated field is replaced (C4), enrichment switched off (C6),  *)
(* validation switched off (C7)                                            *)

\* a field of the reference was populated and the iteration changed it
Replaced(key) == ~isBlank(last.ref[key]) /\ last.updated[key] # last.ref[key]

\* the best match of the iteration is validated with a score of at least 0.95
NearCertain ==
  last.hasBest /\ last.best.status = "validated" /\ FGeq(last.best.score, Frac(95, 100))

\* C4: an iteration replaces a populated field only when enrichment is enabled and
\* the best match is validated with score >= 0.95; otherwise every populated field
\* is unchanged. With a match validated at score 1 and enrichment enabled, every
\* overwritable field takes the non-blank value of the patch: a wrong title is
\* replaced, a blank year is filled.
C4_ReplaceOnlyWhenNearCertain ==
  last.defined =>
    /\ \A key \in DOMAIN last.ref :
         Replaced(key) => (prefs.enrichFromIndexes /\ NearCertain)
    /\ (prefs.enrichFromIndexes /\ NearCertain /\ last.best.score = FOne) =>
         \A key \in DOMAIN last.ref \cap overwriteKeys :
           Offers(last.best.patch, key) => last.updated[key] = last.best.patch[key]

\* the reference with the wrong title, the right DOI and the year "null", matched
\* by DOI with score 1: the title is replaced and the year filled
C4_Witness ==
  /\ last.defined
  /\ prefs.enrichFromIndexes
  /\ NearCertain
  /\ last.best.score = FOne
  /\ normalizeDOI(last.ref.DOI) = DoiA
  /\ last.ref.title = Str(TitleWrong)
  /\ last.updated.title = Str(TitleLower)
  /\ isBlank(last.ref.year)
  /\ last.updated.year = Str(Y2020)

\* the source names of the messages of a report, errors then warnings
ReportPrefixes(validation) ==
  {validation.errors[j].prefix : j \in DOMAIN validation.errors}
    \cup {validation.warnings[j].prefix : j \in DOMAIN validation.warnings}

\* C6: with prefs.enrichFromIndexes false (and prefs.enabled true) every pushed and
\* every returned reference is the input reference, whatever the matches, and the
\* report of the reference holds one message of every enabled adapter.
C6_NoEnrichmentKeepsReferences ==
  (prefs.enabled /\ ~prefs.enrichFromIndexes) =>
    /\ mergedRefs = SubSeq(refs, 1, Len(mergedRefs))
    /\ pc = "returned" => result.references = refs
    /\ \A j \in DOMAIN validations :
         /\ ReportPrefixes(validations[j]) = {SourcePrefix(src) : src \in EnabledSources(prefs)}
         /\ Len(validations[j].errors) + Len(validations[j].warnings)
              = Cardinality(EnabledSources(prefs))

\* enrichment is off, the best match is validated with score 1 and its patch
\* offers another title than the reference has
C6_Witness ==
  /\ prefs.enabled
  /\ ~prefs.enrichFromIndexes
  /\ pc = "returned"
  /\ last.defined
  /\ last.hasBest
  /\ last.best.status = "validated"
  /\ last.best.score = FOne
  /\ Offers(last.best.patch, "title")
  /\ last.best.patch.title # last.ref.title
  /\ Cardinality(EnabledSources(prefs)) = 2

\* C7: with prefs.enabled false validateAndEnrich goes from its call straight to
\* its return: no adapter is invoked, no request issued, onProgress not called;
\* it returns the input references and one report per reference with isValid
\* true and no errors, warnings or suggestions, whatever the source flags say.
C7_DisabledShortCircuits ==
  ~prefs.enabled =>
    /\ pc \in {"call", "returned"}
    /\ call = NoCall
    /\ progressLog = <<>>
    /\ matches = <<>>
    /\ pc = "returned" =>
         /\ result.references = refs
         /\ result.validationResults = [j \in DOMAIN refs |-> EmptyValidation]

\* validation is off, two references are handed in and a source flag is on
C7_Witness ==
  /\ ~prefs.enabled
  /\ pc = "returned"
  /\ Len(refs) = 2
  /\ EnabledSources(prefs) # {}
  /\ Len(result.validationResults) = 2

-----------------------------------------------------------------------------
(* Faults: what reaches the caller (C8), what an error match stops (C9),   *)
(* how long the request helper goes on (C10)                               *)

\* C8: validateAndEnrich never raises to its caller, and when it returns it
\* returns a reference and a validation result for every input reference.
C8_NeverRaises ==
  /\ pc # "threw"
  /\ pc = "returned" =>
       /\ Len(result.references) = Len(refs)
       /\ Len(result.validationResults) = Len(refs)

\* the position of a source in the invocation order
SourceIndex(src) == CHOOSE n \in DOMAIN Sources : Sources[n] = src

\* the matches are those of the enabled adapters, one each, in invocation order
OneMatchPerEnabledAdapter(ms) ==
  /\ {ms[j].source : j \in DOMAIN ms} = EnabledSources(prefs)
  /\ \A j, h \in DOMAIN ms : j < h => SourceIndex(ms[j].source) < SourceIndex(ms[h].source)

ErrorPositions(ms) == {j \in DOMAIN ms : ms[j].status = "error"}

InvalidPositions(ms) == {j \in DOMAIN ms : ms[j].status = "invalid"}

Occurrences(seq, x) == Cardinality({j \in DOMAIN seq : seq[j] = x})

\* the explanations of the matches of status error
ErrorExplanations ==
  {"error: exception", "request failed", "search failed", "SPARQL failed", "empty SRU response"}

\* an adapter has ended with status error, for the current reference or for one
\* before it
ErrorSeen ==
  \/ ErrorPositions(matches) # {}
  \/ \E j \in DOMAIN validations : \E h \in DOMAIN validations[j].warnings :
       validations[j].warnings[h].explanation[1] \in ErrorExplanations

\* C9: an adapter that ends with status error stops nothing. After it the enabled
\* adapters later in the invocation order are invoked and resolve, and the later
\* references are processed: validateAndEnrich does not end in an exception, the
\* best match is selected among one match of every enabled adapter, and the batch
\* returns a reference and a report for every input reference. The error match
\* puts exactly one message into warnings, none into errors, and isValid is
\* false only when some match is invalid.
C9_ErrorMatchStopsNothing ==
  /\ ErrorSeen => pc # "threw"
  /\ pc = "reconcile" => OneMatchPerEnabledAdapter(matches)
  /\ (pc = "returned" /\ prefs.enabled) =>
       /\ Len(result.references) = Len(refs)
       /\ Len(result.validationResults) = Len(refs)
       /\ Len(progressLog) = Len(refs)
  /\ last.defined =>
       /\ \A j \in ErrorPositions(last.matches) :
            /\ Occurrences(last.validation.warnings, MessageOf(last.matches[j])) = 1
            /\ Occurrences(last.validation.errors, MessageOf(last.matches[j])) = 0
       /\ Len(last.validation.warnings)
            = Len(last.matches) - Cardinality(InvalidPositions(last.matches))
       /\ Len(last.validation.errors) = Cardinality(InvalidPositions(last.matches))
       /\ last.validation.isValid = (InvalidPositions(last.matches) = {})

\* what of C9 the exception of C8 leaves standing: the accounting of the report
C9_ReportAccounting ==
  last.defined =>
    /\ \A j \in ErrorPositions(last.matches) :
         /\ Occurrences(last.validation.warnings, MessageOf(last.matches[j])) = 1
         /\ Occurrences(last.validation.errors, MessageOf(last.matches[j])) = 0
    /\ last.validation.isValid = (InvalidPositions(last.matches) = {})

\* the request helper has returned to its adapter, which has resolved
HelperReturned == call.viaRetry /\ call.outcome = "matched"

\* C10: requestJsonWithRetry terminates: it never issues more than maxAttempts
\* (3) requests and sleeps only before another attempt. Answered 503 every time it
\* issues exactly 3 requests and returns the last status, and the calling adapter
\* reports status error with that status; answered 200 or 404 (a status outside
\* 429, 500, 502, 503, 504) first, it issues exactly one request.
C10_RetryTerminates ==
  call.viaRetry =>
    /\ call.maxAttempts = 3
    /\ call.attempt <= call.maxAttempts
    /\ Len(call.statuses) <= call.attempt
    /\ Len(call.delays) = call.attempt - (IF pc = "sleep" THEN 0 ELSE 1)
    /\ pc = "sleep" => call.attempt < call.maxAttempts
    /\ (HelperReturned /\ \A j \in DOMAIN call.statuses : call.statuses[j] = 503) =>
         /\ Len(call.statuses) = 3
         /\ matches[Len(matches)].source = call.source
         /\ matches[Len(matches)].status = "error"
         /\ matches[Len(matches)].explanation[2] = "HTTP 503"
    /\ (HelperReturned /\ call.statuses[1] \in {200, 404}) => Len(call.statuses) = 1

\* three answers 503 in a row, and the adapter has reported an error
C10_Witness ==
  /\ HelperReturned
  /\ call.statuses = <<503, 503, 503>>
  /\ call.delays = <<2000, 4000>>
  /\ matches[Len(matches)].status = "error"

-----------------------------------------------------------------------------
(* Requests that throw (C11) *)

\* the request of the call in progress threw, and its adapter has resolved
RequestThrew ==
  /\ call.outcome = "matched"
  /\ call.statuses # <<>>
  /\ call.statuses[Len(call.statuses)] = 0

\* C11: a request that throws (timeout, DNS or network error) is retried by the
\* request layer with the backoff of a 429/5xx answer: the adapter reports status
\* error for it only when the attempts (3) are exhausted, after the delays 2000
\* and 4000, and validateAndEnrich does not end in an exception because of it.
C11_ThrownRequestIsRetried ==
  (call.viaRetry /\ RequestThrew) =>
    /\ Len(call.statuses) = call.maxAttempts
    /\ call.delays = <<backoffMs(1), backoffMs(2)>>
    /\ matches[Len(matches)].status = "error"
    /\ pc # "threw"

\* what holds of a request that throws: the adapter reports status error at
\* once, and the exception does not reach validateAndEnrich
C11_ThrownRequestBecomesError ==
  RequestThrew =>
    /\ matches[Len(matches)].source = call.source
    /\ matches[Len(matches)].status = "error"
    /\ pc # "threw"

-----------------------------------------------------------------------------
(* scoreCandidate on its own (C12) *)

\* the DOI of a reference or of a record: absent, empty, or one of two DOIs in
\* the forms normalizeDOI brings to one
DoiForms ==
  {Undefined, Str(<<>>), Str(DoiA), Str(DoiColon \o DoiA), Str(HttpsPrefix \o DoiA),
   Str(<<" ">> \o DoiB)}

ScoreRefs ==
  {[BlankRef EXCEPT !.title = t, !.DOI = d, !.authors = a, !.year = y] :
     t \in {Undefined, Str(TitleAbc), Str(TitleWrong)}, d \in DoiForms,
     a \in {Undefined, Authors(NameXu)}, y \in {Undefined, Str(Y2020)}}

ScoreCandidates ==
  {[title |-> t, doi |-> d, year |-> y, firstAuthorLastName |-> a] :
     t \in {Undefined, Str(TitleLower)}, d \in DoiForms,
     a \in {Undefined, Str(NameXu)}, y \in {Undefined, Str(Y2020)}}

InitScore ==
  /\ Idle
  /\ \E ref \in ScoreRefs, candidate \in ScoreCandidates :
       unit = [op |-> "scoreCandidate", ref |-> ref, candidate |-> candidate, done |-> FALSE,
               value |-> [score |-> FZero, doiMismatch |-> FALSE]]

\* the call scoreCandidate(ref, candidate)
CallScoreCandidate ==
  /\ unit.op = "scoreCandidate"
  /\ ~unit.done
  /\ unit' = [unit EXCEPT !.done = TRUE, !.value = scoreCandidate(unit.ref, unit.candidate)]
  /\ UNCHANGED <<refs, prefs, pc, i, k, matches, call, last, mergedRefs, validations,
                 progressLog, result>>

NextScore == CallScoreCandidate

SpecScore == InitScore /\ [][NextScore]_vars

ScoreReturned == unit.op = "scoreCandidate" /\ unit.done

\* C12: scoreCandidate with a non-empty normalized DOI on both sides gives score 1
\* without mismatch when the two are equal and score 0 with doiMismatch when they
\* differ, whatever title, author and year are; with a DOI missing on either
\* side it gives 0.75 * title + 0.20 * author + 0.05 * year without mismatch.
C12_DoiDecidesBeforeComposite ==
  ScoreReturned =>
    IF normalizeDOI(unit.ref.DOI) # <<>> /\ normalizeDOI(unit.candidate.doi) # <<>>
    THEN IF normalizeDOI(unit.ref.DOI) = normalizeDOI(unit.candidate.doi)
         THEN unit.value = [score |-> FOne, doiMismatch |-> FALSE]
         ELSE unit.value = [score |-> FZero, doiMismatch |-> TRUE]
    ELSE /\ ~unit.value.doiMismatch
         /\ unit.value.score =
              FAdd(FAdd(FMul(Frac(3, 4), TitleScore(unit.ref, unit.candidate)),
                        FMul(Frac(1, 5), AuthorScore(unit.ref, unit.candidate))),
                   FMul(Frac(1, 20), YearScore(unit.ref, unit.candidate)))

\* two different DOIs with the same title, first author and year: score 0 and a
\* mismatch
C12_Witness ==
  /\ ScoreReturned
  /\ unit.ref.DOI = Str(DoiColon \o DoiA)
  /\ unit.candidate.doi = Str(<<" ">> \o DoiB)
  /\ unit.ref.title = Str(TitleAbc)
  /\ unit.candidate.title = Str(TitleLower)
  /\ unit.ref.authors = Authors(NameXu)
  /\ unit.candidate.firstAuthorLastName = Str(NameXu)
  /\ unit.value = [score |-> FZero, doiMismatch |-> TRUE]

-----------------------------------------------------------------------------
(* Score 1 (C13) *)

\* matches holds the matches of refs[i]
InIteration == pc \in {"adapter", "http", "sleep", "reconcile"}

\* the reference has a DOI that normalizeDOI leaves non-empty
HasDoi(ref) == IsString(ref.DOI) /\ normalizeDOI(ref.DOI) # <<>>

\* C13: score 1 is the score of an exact identifier match only. A match of any
\* adapter with score 1 comes from equal normalized DOIs of reference and record,
\* so the reference it was made for has a DOI; similarity of title, author and
\* year alone never gives score 1.
C13_ScoreOneOnlyByIdentifier ==
  InIteration =>
    \A j \in DOMAIN matches : matches[j].score = FOne => HasDoi(refs[i])

-----------------------------------------------------------------------------
(* One adapter call on its own: a source, a reference the adapter issues a   *)
(* request for, and what the request ends with (C14)                        *)

\* the statuses Zotero.HTTP.request hands back instead of throwing
SuccessCodesOf(source) == IF source = "gbv" THEN GbvSuccessCodes ELSE HelperSuccessCodes

\* the references of the batches, and one with a DOI whose title, first author
\* and year are those of the records
LookupRefs ==
  {RefList[n] : n \in DOMAIN RefList}
    \cup {normalizeReference([BlankRef EXCEPT !.title = Str(TitleAbc), !.DOI = Str(DoiA),
                                              !.authors = Authors(NameXu), !.year = Str(Y2020)])}

InitLookup ==
  /\ Idle
  /\ \E source \in SourceSet, ref \in LookupRefs, resp \in Responses :
       /\ PreRequest(source, ref).kind = "request"
       /\ resp.threw \/ resp.status \in SuccessCodesOf(source)
       /\ unit = [op |-> "adapter", source |-> source, ref |-> ref, resp |-> resp,
                  done |-> FALSE, value |-> NoMatch]

\* the adapter resolves to its match
CallAdapter ==
  /\ unit.op = "adapter"
  /\ ~unit.done
  /\ unit' = [unit EXCEPT !.done = TRUE,
                          !.value = AdapterResult(unit.source, unit.ref, unit.resp)]
  /\ UNCHANGED <<refs, prefs, pc, i, k, matches, call, last, mergedRefs, validations,
                 progressLog, result>>

NextLookup == CallAdapter

SpecLookup == InitLookup /\ [][NextLookup]_vars

AdapterResolved == unit.op = "adapter" /\ unit.done

\* the adapters that hand the DOI of a record to scoreCandidate
DoiScoringSources == {"crossref", "openalex", "loc"}

\* the records of the answer the adapter scores: the one record of an
\* identifier lookup, every record of a search
ScoredItems(source, ref, resp) ==
  IF ItemsOf(resp) # <<>> /\ PreRequest(source, ref).lookup = "doi"
  THEN <<Head(ItemsOf(resp))>>
  ELSE ItemsOf(resp)

\* reference and record both have a DOI, and the two differ
DoisDiffer(ref, item) ==
  /\ HasDoi(ref)
  /\ IsString(item.doi)
  /\ normalizeDOI(item.doi) # <<>>
  /\ normalizeDOI(item.doi) # normalizeDOI(ref.DOI)

\* the adapter was answered 200 with records, and every record it scored has a
\* DOI other than the reference's
ScoredMismatch ==
  /\ AdapterResolved
  /\ unit.source \in DoiScoringSources
  /\ ~unit.resp.threw
  /\ unit.resp.status = 200
  /\ ScoredItems(unit.source, unit.ref, unit.resp) # <<>>
  /\ \A n \in DOMAIN ScoredItems(unit.source, unit.ref, unit.resp) :
       DoisDiffer(unit.ref, ScoredItems(unit.source, unit.ref, unit.resp)[n])

\* C14: in every adapter a record with a DOI other than the (non-empty) DOI of
\* the reference gives a match of status invalid with score 0, whatever the
\* titles are; the match carries no patch, so the reference stays as it is, and
\* its message goes to the errors of the validation report.
C14_DoiMismatchIsInvalid ==
  ScoredMismatch =>
    /\ unit.value.status = "invalid"
    /\ unit.value.score = FZero
    /\ ~unit.value.hasPatch
    /\ buildValidationFromMatch(unit.value).errors = <<MessageOf(unit.value)>>

\* what holds of C14: the identifier lookups of Crossref and OpenAlex
C14_DoiLookupMismatchIsInvalid ==
  (ScoredMismatch /\ PreRequest(unit.source, unit.ref).lookup = "doi") =>
    /\ unit.value.status = "invalid"
    /\ unit.value.score = FZero
    /\ ~unit.value.hasPatch
    /\ buildValidationFromMatch(unit.value).errors = <<MessageOf(unit.value)>>

-----------------------------------------------------------------------------
(* The validation report of a reference (C15) *)

\* the messages of the matches that are invalid (or of those that are not), in
\* the order of the matches
RECURSIVE MessagesOf(_, _)
MessagesOf(ms, invalid) ==
  IF ms = <<>> THEN <<>>
  ELSE (IF (Head(ms).status = "invalid") = invalid THEN <<MessageOf(Head(ms))>> ELSE <<>>)
         \o MessagesOf(Tail(ms), invalid)

\* C15: with prefs.enabled the report of a reference has one message for every
\* enabled adapter: the matches it is built from are those of the enabled
\* adapters in invocation order, errors holds the messages of the invalid ones
\* and warnings those of the validated, not_found and error ones, both in that
\* order, suggestions is empty, and isValid is false exactly when a match is
\* invalid; with no adapter enabled the report is valid with empty lists.
C15_OneMessagePerEnabledAdapter ==
  last.defined =>
    /\ OneMatchPerEnabledAdapter(last.matches)
    /\ last.validation.errors = MessagesOf(last.matches, TRUE)
    /\ last.validation.warnings = MessagesOf(last.matches, FALSE)
    /\ Len(last.validation.errors) + Len(last.validation.warnings)
         = Cardinality(EnabledSources(prefs))
    /\ last.validation.suggestions = <<>>
    /\ last.validation.isValid = (InvalidPositions(last.matches) = {})
    /\ validations[Len(validations)] = last.validation
    /\ EnabledSources(prefs) = {} => last.validation = EmptyValidation

\* two adapters, the first validated and the second one in error: two warnings
\* in the order of invocation
C15_Witness ==
  /\ last.defined
  /\ Len(last.matches) = 2
  /\ last.matches[1].status = "validated"
  /\ last.matches[2].status = "error"
  /\ last.validation.warnings = <<MessageOf(last.matches[1]), MessageOf(last.matches[2])>>
  /\ last.validation.isValid

-----------------------------------------------------------------------------
(* The best match and the order of the matches (C16) *)

\* the matches in another order
Reordered(ms, p) == [j \in DOMAIN ms |-> ms[p[j]]]

\* C16: the best match is a function of the set of matches alone: in whatever
\* order the matches of a reference arrive, two of equal status and equal score
\* included, the same match is selected.
C16_BestIsOrderIndependent ==
  (pc = "reconcile" /\ matches # <<>>) =>
    \A p \in Permutations(DOMAIN matches) : BestOf(Reordered(matches, p)) = BestOf(matches)

\* what holds of C16: rank and score of the selected match do not depend on the
\* order
C16_BestRankAndScoreOrderIndependent ==
  (pc = "reconcile" /\ matches # <<>>) =>
    \A p \in Permutations(DOMAIN matches) :
      /\ BestOf(Reordered(matches, p)).status = BestOf(matches).status
      /\ BestOf(Reordered(matches, p)).score = BestOf(matches).score

\* two validated matches of equal score with different patches
C16_TieOfValidated ==
  /\ pc = "reconcile"
  /\ Len(matches) = 2
  /\ matches[1].status = "validated"
  /\ matches[2].status = "validated"
  /\ matches[1].score = matches[2].score
  /\ matches[1].patch # matches[2].patch
  /\ prefs.enrichFromIndexes
  /\ applyPatch(refs[i], matches[1].patch, TRUE, ForceOverwrite(prefs, matches[1]))
       # applyPatch(refs[i], matches[2].patch, TRUE, ForceOverwrite(prefs, matches[2]))

-----------------------------------------------------------------------------
(* The order of the steps of validateAndEnrich (C17) *)

\* the enabled sources before position n of the invocation order
EnabledBefore(n) == {Sources[j] : j \in {h \in 1..(n - 1) : h <= Len(Sources) /\ prefs[Sources[h]]}}

\* the matches pushed so far are those of the enabled adapters before position
\* n, one each, in invocation order
MatchesOfAdaptersBefore(n) ==
  /\ Len(matches) = Cardinality(EnabledBefore(n))
  /\ {matches[j].source : j \in DOMAIN matches} = EnabledBefore(n)
  /\ \A j, h \in DOMAIN matches : j < h => SourceIndex(matches[j].source) < SourceIndex(matches[h].source)

\* onProgress has been called once for each of the first n references, in index
\* order, with (index, total, title or "Reference index")
ProgressCalledFor(n) ==
  /\ Len(progressLog) = n
  /\ \A j \in 1..n :
       progressLog[j] =
         [current |-> j, total |-> Len(refs),
          message |-> IF Truthy(refs[j].title) THEN refs[j].title
                      ELSE Str(<<"R", "e", "f", "e", "r", "e", "n", "c", "e", " ", DigitChar(j)>>)]

\* the order of the steps, as a property of every state
SequentialState ==
  /\ call.outcome = "pending" <=> pc = "http"
  /\ call.outcome = "sleeping" <=> pc = "sleep"
  /\ pc \in {"http", "sleep"} =>
       /\ call.source = Sources[k]
       /\ prefs[call.source]
       /\ MatchesOfAdaptersBefore(k)
  /\ pc = "adapter" => prefs[Sources[k]] /\ MatchesOfAdaptersBefore(k)
  /\ pc = "reconcile" => MatchesOfAdaptersBefore(Len(Sources) + 1)
  /\ InIteration =>
       /\ ProgressCalledFor(i)
       /\ Len(mergedRefs) = i - 1
       /\ Len(validations) = i - 1
  /\ pc = "progress" =>
       /\ call.outcome \notin {"pending", "sleeping"}
       /\ ProgressCalledFor(i - 1)
       /\ Len(mergedRefs) = i - 1
  /\ (pc = "returned" /\ prefs.enabled) => ProgressCalledFor(Len(refs))

\* onProgress is called at the head of an iteration only, with no adapter call
\* in progress, and a request or a delay belongs to the one call in progress
SequentialStep ==
  /\ progressLog' # progressLog =>
       /\ pc = "progress"
       /\ call.outcome \notin {"pending", "sleeping"}
       /\ progressLog' = Append(progressLog, progressLog'[Len(progressLog')])
       /\ matches' = <<>>
  /\ (pc \in {"http", "sleep"} /\ pc' \in {"http", "sleep"}) =>
       /\ call'.source = call.source
       /\ i' = i
       /\ k' = k
       /\ matches' = matches
  /\ (pc' = "http" /\ pc = "adapter") => call'.source = Sources[k] /\ call'.attempt = 1

\* C17: validateAndEnrich is strictly sequential. One adapter call at most is in
\* progress, with one request or one backoff delay; onProgress(index, total,
\* title) is called once per reference, in index order, when every adapter call
\* of the reference before has completed and before the first adapter call of
\* its own; the enabled adapters of a reference run in the order crossref,
\* openalex, lobid, loc, gbv, wikidata.
C17_StrictlySequential == [](SequentialState) /\ [][SequentialStep]_vars

\* the second reference has been announced and its adapter called, the first
\* one being done
C17_Witness ==
  /\ pc = "http"
  /\ i = 2
  /\ Len(progressLog) = 2
  /\ progressLog[2].current = 2
  /\ Len(mergedRefs) = 1
  /\ call.outcome = "pending"

-----------------------------------------------------------------------------
(* The two lists validateAndEnrich returns (C18) *)

\* the returned reference at a position is the input reference of that
\* position: the same item type (no adapter patches it), and every other field
\* as it was unless it was blank or is one of overwriteKeys
Describes(out, ref) ==
  /\ DOMAIN out = DOMAIN ref
  /\ out.itemType = ref.itemType
  /\ \A key \in DOMAIN ref : out[key] = ref[key] \/ isBlank(ref[key]) \/ key \in overwriteKeys

\* the two lists are as long as the input, position by position
Aligned ==
  /\ Len(result.references) = Len(refs)
  /\ Len(result.validationResults) = Len(refs)
  /\ \A j \in DOMAIN refs : Describes(result.references[j], refs[j])

\* C18: for every input list and every preference setting validateAndEnrich
\* returns: it does not end in an exception, and the lists references and
\* validationResults it returns have both the length of the input, position j of
\* each describing input reference j, also when adapters fail for a reference.
C18_OutputsAlignedWithInput ==
  /\ pc # "threw"
  /\ pc = "returned" => Aligned

\* what holds of C18: the lists of a call that returns are aligned with the input
C18_AlignedWhenReturned == pc = "returned" => Aligned

-----------------------------------------------------------------------------
(* mergeValidation on its own (C19): its arguments as JavaScript values, a   *)
(* base that may be undefined and lists that may be missing                 *)

Array(seq) == [kind |-> "array", s |-> seq]

NoArray == [kind |-> "undefined", s |-> <<>>]

\* x || []
ArrayOrEmpty(x) == IF x.kind = "array" THEN x.s ELSE <<>>

Object(v) == [kind |-> "object", v |-> v]

NoObject ==
  [kind |-> "undefined",
   v |-> [isValid |-> TRUE, errors |-> NoArray, warnings |-> NoArray, suggestions |-> NoArray]]

\* the lists of a ValidationResult as mergeValidation reads them
ReadLists(v) ==
  [isValid |-> v.isValid, errors |-> ArrayOrEmpty(v.errors), warnings |-> ArrayOrEmpty(v.warnings),
   suggestions |-> ArrayOrEmpty(v.suggestions)]

\* the object literal mergeValidation returns
NewResult(v) ==
  Object([isValid |-> v.isValid, errors |-> Array(v.errors), warnings |-> Array(v.warnings),
          suggestions |-> Array(v.suggestions)])

\* mergeValidation(base, extra) with a base that may be undefined
mergeValidationCall(base, extra) ==
  IF base.kind = "undefined" THEN extra
  ELSE NewResult(mergeValidation(ReadLists(base.v), ReadLists(extra.v)))

MergeInputs ==
  {Object([isValid |-> ok, errors |-> e, warnings |-> w, suggestions |-> s]) :
     ok \in BOOLEAN, e \in {NoArray, Array(<<>>), Array(<<"x">>), Array(<<"y">>)},
     w \in {Array(<<>>), Array(<<"w">>)}, s \in {Array(<<>>), Array(<<"s">>)}}

InitMerge ==
  /\ Idle
  /\ \E a \in MergeInputs, b \in MergeInputs, c \in MergeInputs :
       unit = [op |-> "mergeValidation", a |-> a, b |-> b, c |-> c, done |-> FALSE,
               left |-> NoObject, right |-> NoObject, onUndefined |-> NoObject]

\* the calls mergeValidation(mergeValidation(a, b), c),
\* mergeValidation(a, mergeValidation(b, c)) and mergeValidation(undefined, a)
CallMergeValidation ==
  /\ unit.op = "mergeValidation"
  /\ ~unit.done
  /\ unit' = [unit EXCEPT
                !.done = TRUE,
                !.left = mergeValidationCall(mergeValidationCall(unit.a, unit.b), unit.c),
                !.right = mergeValidationCall(unit.a, mergeValidationCall(unit.b, unit.c)),
                !.onUndefined = mergeValidationCall(NoObject, unit.a)]
  /\ UNCHANGED <<refs, prefs, pc, i, k, matches, call, last, mergedRefs, validations,
                 progressLog, result>>

NextMerge == CallMergeValidation

SpecMerge == InitMerge /\ [][NextMerge]_vars

MergeReturned == unit.op = "mergeValidation" /\ unit.done

\* the list of a name of a, then of b, then of c
ListsInOrder(name) ==
  Array(ArrayOrEmpty(unit.a.v[name]) \o ArrayOrEmpty(unit.b.v[name]) \o ArrayOrEmpty(unit.c.v[name]))

\* C19: mergeValidation is associative and keeps the order: (a + b) + c and
\* a + (b + c) are the same result, whose isValid is the conjunction of the three
\* and whose errors, warnings and suggestions are the lists of a, b and c
\* concatenated in that order; merged onto an undefined base, a result comes
\* back as it is.
C19_MergeAssociativeInOrder ==
  MergeReturned =>
    /\ unit.left = unit.right
    /\ unit.left.kind = "object"
    /\ unit.left.v.isValid = (unit.a.v.isValid /\ unit.b.v.isValid /\ unit.c.v.isValid)
    /\ unit.left.v.errors = ListsInOrder("errors")
    /\ unit.left.v.warnings = ListsInOrder("warnings")
    /\ unit.left.v.suggestions = ListsInOrder("suggestions")
    /\ unit.onUndefined = unit.a

\* three results with different errors, the middle one not valid
C19_Witness ==
  /\ MergeReturned
  /\ unit.a.v.isValid
  /\ ~unit.b.v.isValid
  /\ unit.c.v.isValid
  /\ unit.a.v.errors = Array(<<"x">>)
  /\ unit.b.v.errors = Array(<<"y">>)
  /\ unit.c.v.errors = NoArray
  /\ unit.left.v.errors = Array(<<"x", "y">>)
  /\ ~unit.left.v.isValid
  /\ unit.right = unit.left

-----------------------------------------------------------------------------
(* diceCoefficient on its own (C20) *)

\* the length of the strings compared
DiceMaxLen == 3

\* letters of a stopword in both cases, a blank, a punctuation mark and a
\* non-Latin character (named, since the module is ASCII: u65e5 is U+65E5)
DiceChars == {"t", "h", "e", "T", " ", "!", "u65e5"}

DiceStrings == SeqsUpTo(DiceChars, DiceMaxLen)

\* strings a string is compared with, besides itself
DiceOthers == {<<"h", "e">>, <<"t", "h", "e", " ", "h", "e">>}

InitDice ==
  /\ Idle
  /\ \E a \in DiceStrings : \E b \in {a} \cup DiceOthers :
       unit = [op |-> "diceCoefficient", a |-> a, b |-> b, done |-> FALSE, value |-> FZero]

\* the call diceCoefficient(a, b)
CallDiceCoefficient ==
  /\ unit.op = "diceCoefficient"
  /\ ~unit.done
  /\ unit' = [unit EXCEPT !.done = TRUE, !.value = diceCoefficient(unit.a, unit.b)]
  /\ UNCHANGED <<refs, prefs, pc, i, k, matches, call, last, mergedRefs, validations,
                 progressLog, result>>

NextDice == CallDiceCoefficient

SpecDice == InitDice /\ [][NextDice]_vars

DiceReturned == unit.op = "diceCoefficient" /\ unit.done

\* C20: diceCoefficient(x, x) is 1 for every string x that is not empty and not
\* whitespace only, the strings made of stopwords only, of punctuation only or
\* of non-Latin characters only included.
C20_DiceOfSelfIsOne ==
  (DiceReturned /\ unit.b = unit.a /\ Trim(unit.a) # <<>>) => unit.value = FOne

\* what holds of C20: diceCoefficient(x, x) is 1 when normalizeText leaves a
\* character of x, and 0 when it leaves none
C20_DiceOfSelfIsOneIfTextIsLeft ==
  (DiceReturned /\ unit.b = unit.a) =>
    unit.value = (IF normalizeText(unit.a) # <<>> THEN FOne ELSE FZero)

-----------------------------------------------------------------------------
(* mergeValidationArrays on its own (C21): the results of the LLM validator  *)
(* (or undefined) and the results of the index validation                   *)

\* the entries of either array
ZipMaxLen == 2

ZipEntries ==
  {Object([isValid |-> TRUE, errors |-> Array(<<>>), warnings |-> Array(<<"w">>),
           suggestions |-> Array(<<>>)]),
   Object([isValid |-> FALSE, errors |-> Array(<<"x">>), warnings |-> Array(<<>>),
           suggestions |-> Array(<<"s">>)]),
   Object([isValid |-> TRUE, errors |-> NoArray, warnings |-> Array(<<"v">>),
           suggestions |-> NoArray]),
   Object([isValid |-> FALSE, errors |-> Array(<<"y">>), warnings |-> Array(<<"w">>),
           suggestions |-> Array(<<>>)])}

Max(a, b) == IF a >= b THEN a ELSE b

\* the entry pushed when both sides have one, with only the verdict of b
MergedEntryVerdictOfExtra(a, b) ==
  Object([isValid |-> b.v.isValid,
          errors |-> Array(ArrayOrEmpty(a.v.errors) \o ArrayOrEmpty(b.v.errors)),
          warnings |-> Array(ArrayOrEmpty(a.v.warnings) \o ArrayOrEmpty(b.v.warnings)),
          suggestions |-> Array(ArrayOrEmpty(a.v.suggestions) \o ArrayOrEmpty(b.v.suggestions))])

\* the entry pushed when both sides have one
MergedEntry(a, b) ==
  Object([isValid |-> a.v.isValid /\ b.v.isValid,
          errors |-> Array(ArrayOrEmpty(a.v.errors) \o ArrayOrEmpty(b.v.errors)),
          warnings |-> Array(ArrayOrEmpty(a.v.warnings) \o ArrayOrEmpty(b.v.warnings)),
          suggestions |-> Array(ArrayOrEmpty(a.v.suggestions) \o ArrayOrEmpty(b.v.suggestions))])

\* the loop of mergeValidationArrays from position n on
RECURSIVE ZipFrom(_, _, _)
ZipFrom(base, extra, n) ==
  IF n > Max(Len(base), Len(extra)) THEN <<>>
  ELSE <<IF n > Len(base) THEN extra[n]
         ELSE IF n > Len(extra) THEN base[n]
         ELSE MergedEntry(base[n], extra[n])>> \o ZipFrom(base, extra, n + 1)

\* mergeValidationArrays(base, extra) with a base that may be undefined
mergeValidationArrays(base, extra) ==
  IF base.kind = "undefined" THEN extra ELSE ZipFrom(base.s, extra, 1)

InitZip ==
  /\ Idle
  /\ \E base \in {NoArray} \cup {Array(q) : q \in SeqsUpTo(ZipEntries, ZipMaxLen)},
        extra \in SeqsUpTo(ZipEntries, ZipMaxLen) :
       unit = [op |-> "mergeValidationArrays", base |-> base, extra |-> extra, done |-> FALSE,
               value |-> <<>>]

\* the call mergeValidationArrays(validationResults, indexResults)
CallMergeValidationArrays ==
  /\ unit.op = "mergeValidationArrays"
  /\ ~unit.done
  /\ unit' = [unit EXCEPT !.done = TRUE, !.value = mergeValidationArrays(unit.base, unit.extra)]
  /\ UNCHANGED <<refs, prefs, pc, i, k, matches, call, last, mergedRefs, validations,
                 progressLog, result>>

NextZip == CallMergeValidationArrays

SpecZip == InitZip /\ [][NextZip]_vars

ZipReturned == unit.op = "mergeValidationArrays" /\ unit.done

\* C21: mergeValidationArrays zips the two arrays position by position. The
\* output is as long as the longer input; where both have an entry the output
\* entry has the conjunction of the two isValid and, for each message list, the
\* list of base followed by the list of extra; where one side alone has an entry
\* it is that entry; an undefined base gives extra itself.
C21_ZipsPositionByPosition ==
  ZipReturned =>
    IF unit.base.kind = "undefined" THEN unit.value = unit.extra
    ELSE /\ Len(unit.value) = Max(Len(unit.base.s), Len(unit.extra))
         /\ \A n \in DOMAIN unit.value :
              IF n > Len(unit.base.s) THEN unit.value[n] = unit.extra[n]
              ELSE IF n > Len(unit.extra) THEN unit.value[n] = unit.base.s[n]
              ELSE /\ unit.value[n].v.isValid
                        = (unit.base.s[n].v.isValid /\ unit.extra[n].v.isValid)
                   /\ \A name \in {"errors", "warnings", "suggestions"} :
                        unit.value[n].v[name] =
                          Array(ArrayOrEmpty(unit.base.s[n].v[name])
                                  \o ArrayOrEmpty(unit.extra[n].v[name]))

\* a base of two entries and one index result: the first entry merged, the
\* second passed through
C21_Witness ==
  /\ ZipReturned
  /\ unit.base.kind = "array"
  /\ Len(unit.base.s) = 2
  /\ Len(unit.extra) = 1
  /\ unit.base.s[1].v.isValid
  /\ ~unit.extra[1].v.isValid
  /\ unit.base.s[1].v.warnings = Array(<<"w">>)
  /\ unit.extra[1].v.warnings = Array(<<"w">>)
  /\ Len(unit.value) = 2
  /\ ~unit.value[1].v.isValid
  /\ unit.value[1].v.warnings = Array(<<"w", "w">>)
  /\ unit.value[2] = unit.base.s[2]

-----------------------------------------------------------------------------
(* The identifier lookups of Crossref and OpenAlex (C22) *)

\* the adapter has resolved after an identifier lookup of Crossref or OpenAlex
\* that was answered
DoiLookupAnswered ==
  /\ AdapterResolved
  /\ unit.source \in {"crossref", "openalex"}
  /\ PreRequest(unit.source, unit.ref).lookup = "doi"
  /\ ~unit.resp.threw

\* the record of the answer, as the adapter hands it to scoreCandidate
LookupCandidate ==
  IF unit.source = "crossref"
  THEN CrossrefCandidate(IF ItemsOf(unit.resp) = <<>> THEN EmptyItem ELSE Head(ItemsOf(unit.resp)))
  ELSE OpenAlexCandidate(IF ItemsOf(unit.resp) = <<>> THEN EmptyItem ELSE Head(ItemsOf(unit.resp)))

\* the adapter can read the body and score the record without an exception
BodyReadable ==
  unit.resp.body.kind # "garbage" /\ ~scoreCandidateThrows(unit.ref, LookupCandidate)

\* 404 gives not_found and any other status that is not 200 gives error, both
\* with score 0 and without patch
DoiLookupFailures ==
  /\ unit.resp.status = 404 =>
       unit.value.status = "not_found" /\ unit.value.score = FZero /\ ~unit.value.hasPatch
  /\ unit.resp.status \notin {200, 404} =>
       unit.value.status = "error" /\ unit.value.score = FZero /\ ~unit.value.hasPatch

\* validated with a patch if and only if the score is at least 0.8, otherwise
\* invalid with the score and without patch
ClassifiedByScore(score) ==
  /\ unit.value.score = score
  /\ IF FGeq(score, Frac(8, 10))
     THEN unit.value.status = "validated" /\ unit.value.hasPatch
     ELSE unit.value.status = "invalid" /\ ~unit.value.hasPatch

\* C22 as it is stated: a direct DOI lookup of Crossref or OpenAlex gives
\* not_found with score 0 on 404, error with score 0 on any other final status
\* that is not 200, and on 200 validated with a patch if and only if the score
\* is >= 0.8, otherwise invalid with that score and no patch.
C22_DoiLookupOutcomes ==
  DoiLookupAnswered =>
    /\ DoiLookupFailures
    /\ unit.resp.status = 200 =>
         \/ unit.value.status = "validated" /\ unit.value.hasPatch
              /\ FGeq(unit.value.score, Frac(8, 10))
         \/ unit.value.status = "invalid" /\ ~unit.value.hasPatch
              /\ ~FGeq(unit.value.score, Frac(8, 10))

\* C22, amended: the outcome of a 200 answer is validated or invalid by the
\* score of scoreCandidate when the adapter can read the body; a 200 answer
\* whose body makes the adapter throw gives error with score 0.
C22_DoiLookupOutcomesOfReadableBodies ==
  DoiLookupAnswered =>
    /\ DoiLookupFailures
    /\ (unit.resp.status = 200 /\ BodyReadable) =>
         ClassifiedByScore(scoreCandidate(unit.ref, LookupCandidate).score)
    /\ (unit.resp.status = 200 /\ ~BodyReadable) =>
         unit.value.status = "error" /\ unit.value.score = FZero /\ ~unit.value.hasPatch

\* a 200 answer with a record without DOI whose title and year are those of the
\* reference: the score is 0.8, and the match is validated
C22_Witness ==
  /\ DoiLookupAnswered
  /\ unit.resp.status = 200
  /\ BodyReadable
  /\ LookupCandidate.doi \in {Undefined, Str(<<>>)}
  /\ unit.value.score = Frac(8, 10)
  /\ unit.value.status = "validated"
  /\ unit.value.hasPatch

-----------------------------------------------------------------------------
(* The searches (C23) *)

\* the adapter has resolved after a search that was answered 200 with a result
\* set
SearchAnswered ==
  /\ AdapterResolved
  /\ PreRequest(unit.source, unit.ref).lookup = "search"
  /\ ~unit.resp.threw
  /\ unit.resp.status = 200
  /\ unit.resp.body.kind = "records"

\* the score an adapter gives a record of its search
SearchScore(source, ref, item) ==
  CASE source = "crossref" -> scoreCandidate(ref, CrossrefCandidate(item)).score
    [] source = "openalex" -> scoreCandidate(ref, OpenAlexCandidate(item)).score
    [] source = "lobid" -> LobidScore(ref, item)
    [] source = "loc" -> scoreCandidate(ref, LocCandidate(item)).score
    [] source = "gbv" -> GbvScore(ref, item)
    [] OTHER -> WikidataLabelScore(ref, item)

\* the patch an adapter builds from a record of its search
SearchPatch(source, ref, item) ==
  CASE source = "crossref" -> CrossrefPatch(ref, item)
    [] source = "openalex" -> OpenAlexPatch(ref, item)
    [] source \in {"lobid", "loc"} -> TitleYearPatch(ref, item)
    [] source = "gbv" -> GbvPatch(ref, item)
    [] OTHER -> [title |-> Or(item.title, ref.title)]

\* scoring a record of the search throws
SearchScoreThrows(source, ref, item) ==
  CASE source = "crossref" -> scoreCandidateThrows(ref, CrossrefCandidate(item))
    [] source = "openalex" -> scoreCandidateThrows(ref, OpenAlexCandidate(item))
    [] source = "loc" -> scoreCandidateThrows(ref, LocCandidate(item))
    [] source = "wikidata" -> TitleThrows(ref)
    [] OTHER -> FALSE

\* every record of the result set can be scored
Scorable ==
  \A n \in DOMAIN unit.resp.body.items :
    ~SearchScoreThrows(unit.source, unit.ref, unit.resp.body.items[n])

\* the first of the records with the highest score
FirstBest(source, ref, items) ==
  CHOOSE n \in DOMAIN items :
    /\ \A m \in DOMAIN items : FGeq(SearchScore(source, ref, items[n]), SearchScore(source, ref, items[m]))
    /\ \A m \in 1..(n - 1) : FGt(SearchScore(source, ref, items[n]), SearchScore(source, ref, items[m]))

\* >= 0.8, and >= 0.85 for the label search of Wikidata
SearchThreshold(source) == IF source = "wikidata" THEN Frac(85, 100) ELSE Frac(8, 10)

\* an empty result set gives not_found with score 0
EmptySetIsNotFound ==
  unit.resp.body.items = <<>> =>
    unit.value.status = "not_found" /\ unit.value.score = FZero /\ ~unit.value.hasPatch

\* the match is that of the first best record: validated with the patch of
\* that record at or above the threshold, not_found without patch below
ClassifiedByBest(item, score) ==
  /\ unit.value.score = score
  /\ IF FGeq(score, SearchThreshold(unit.source))
     THEN /\ unit.value.status = "validated"
          /\ unit.value.hasPatch
          /\ unit.value.patch = SearchPatch(unit.source, unit.ref, item)
     ELSE unit.value.status = "not_found" /\ ~unit.value.hasPatch

\* C23 as it is stated: a search with an empty result set gives not_found with
\* score 0; with records the reported score is the highest score of the records
\* (the first one on ties), and the match is validated with the patch of that
\* record if and only if that score is >= 0.8 (>= 0.85 for the Wikidata label
\* search), and not_found with that score and no patch below.
C23_SearchOutcomes ==
  SearchAnswered =>
    /\ EmptySetIsNotFound
    /\ unit.resp.body.items # <<>> =>
         /\ unit.value.status \in {"validated", "not_found"}
         /\ unit.value.status = "validated" <=>
              FGeq(unit.value.score, SearchThreshold(unit.source))
         /\ unit.value.hasPatch <=> unit.value.status = "validated"

\* C23, amended: the same for the result sets whose records the adapter can
\* score; when scoring a record throws, the match is error with score 0.
C23_SearchOutcomesOfScorableRecords ==
  SearchAnswered =>
    /\ EmptySetIsNotFound
    /\ (unit.resp.body.items # <<>> /\ Scorable) =>
         ClassifiedByBest(
           unit.resp.body.items[FirstBest(unit.source, unit.ref, unit.resp.body.items)],
           SearchScore(unit.source, unit.ref,
                       unit.resp.body.items[FirstBest(unit.source, unit.ref, unit.resp.body.items)]))
    /\ (unit.resp.body.items # <<>> /\ ~Scorable) =>
         unit.value.status = "error" /\ unit.value.score = FZero /\ ~unit.value.hasPatch

\* a GBV search answered with two records of the same score: the match is
\* validated with the patch of the first
C23_Witness ==
  /\ SearchAnswered
  /\ unit.source = "gbv"
  /\ Len(unit.resp.body.items) = 2
  /\ GbvScore(unit.ref, unit.resp.body.items[1]) = GbvScore(unit.ref, unit.resp.body.items[2])
  /\ GbvPatch(unit.ref, unit.resp.body.items[1]) # GbvPatch(unit.ref, unit.resp.body.items[2])
  /\ unit.value.status = "validated"
  /\ unit.value.patch = GbvPatch(unit.ref, unit.resp.body.items[1])

-----------------------------------------------------------------------------
(* One kind of lookup per adapter and reference (C24) *)

DoiCapable == {"crossref", "openalex", "wikidata"}

\* an adapter call that issues requests is in progress or has just resolved
CallWithRequest == InIteration /\ call.source \in DoiCapable /\ call.lookup # "none"

\* the kind of lookup follows from the DOI of the reference, and a call issues
\* more than one request only after transient answers
OneKindState ==
  CallWithRequest =>
    /\ call.lookup = (IF HasDoi(refs[i]) THEN "doi" ELSE "search")
    /\ \A n \in 1..(Len(call.statuses) - 1) : call.statuses[n] \in TransientStatuses

\* the requests of one call are of one kind, and an answer that is not
\* transient (or the last attempt) ends the call: the adapter resolves to its
\* match and control goes to the next adapter statement
OneKindStep ==
  /\ (pc \in {"http", "sleep"} /\ pc' \in {"http", "sleep"}) => call'.lookup = call.lookup
  /\ (pc = "http" /\ pc' # "sleep") =>
       /\ Len(matches') = Len(matches) + 1
       /\ matches'[Len(matches')].source = call.source
       /\ k' > k
       /\ call'.lookup = call.lookup
       /\ Len(call'.statuses) = Len(call.statuses) + 1

\* C24: Crossref, OpenAlex and Wikidata perform one kind of lookup for a
\* reference. With a non-empty DOI the identifier lookup alone is issued, and
\* its answer (404, no record, a mismatching record) is final: no search request
\* of that adapter follows; the search is issued only for a reference without
\* DOI.
C24_OneKindOfLookup == [](OneKindState) /\ [][OneKindStep]_vars

\* the identifier lookup of Crossref answered 404: the adapter has resolved to
\* not_found after that one request
C24_Witness ==
  /\ InIteration
  /\ call.source = "crossref"
  /\ call.lookup = "doi"
  /\ call.statuses = <<404>>
  /\ call.outcome = "matched"
  /\ matches[Len(matches)].source = "crossref"
  /\ matches[Len(matches)].status = "not_found"

-----------------------------------------------------------------------------
(* The retry helper and the adapters (C25) *)

\* the last request of the call was answered with a transient status, and the
\* adapter has resolved
ResolvedOnTransient ==
  /\ InIteration
  /\ call.outcome = "matched"
  /\ call.statuses # <<>>
  /\ call.statuses[Len(call.statuses)] \in TransientStatuses

\* C25: every adapter issues its lookup through requestJsonWithRetry: an answer
\* 429, 500, 502, 503 or 504 of any provider, the GBV SRU endpoint included, is
\* retried up to the maximum number of attempts (3) before the adapter reports
\* status error.
C25_EveryAdapterRetries ==
  /\ (InIteration /\ call.lookup # "none") => call.viaRetry
  /\ ResolvedOnTransient =>
       /\ Len(call.statuses) = 3
       /\ matches[Len(matches)].source = call.source
       /\ matches[Len(matches)].status = "error"

\* what holds of C25: the adapters other than GBV retry a transient answer
C25_AdaptersButGbvRetry ==
  /\ (InIteration /\ call.lookup # "none" /\ call.source # "gbv") => call.viaRetry
  /\ (ResolvedOnTransient /\ call.source # "gbv") =>
       /\ Len(call.statuses) = 3
       /\ matches[Len(matches)].source = call.source
       /\ matches[Len(matches)].status = "error"
  /\ (ResolvedOnTransient /\ call.source = "gbv") =>
       /\ Len(call.statuses) = 1
       /\ matches[Len(matches)].status = "error"

-----------------------------------------------------------------------------
(* requestJsonWithRetry on its own (C26): the helper called with a maximum   *)
(* of attempts, the provider answering each request or the request throwing *)

\* the largest maxAttempts the helper is called with
RetryMaxAttempts == 6

\* the answers of the provider: a final one and two transient ones
RetryStatuses == {200, 429, 503}

InitRetry ==
  /\ Idle
  /\ \E m \in 1..RetryMaxAttempts :
       unit = [op |-> "requestJsonWithRetry", maxAttempts |-> m, attempt |-> 0,
               statuses |-> <<>>, delays |-> <<>>, at |-> "request", done |-> FALSE]

\* attempt++ and the request is answered: the helper returns or computes the
\* backoff and starts to sleep
RetryRespond ==
  /\ unit.op = "requestJsonWithRetry"
  /\ unit.at = "request"
  /\ \E status \in RetryStatuses :
       unit' = IF HelperReturns(status, unit.attempt + 1, unit.maxAttempts)
               THEN [unit EXCEPT !.attempt = @ + 1, !.statuses = Append(@, status),
                                 !.at = "returned", !.done = TRUE]
               ELSE [unit EXCEPT !.attempt = @ + 1, !.statuses = Append(@, status),
                                 !.delays = Append(@, backoffMs(unit.attempt + 1)),
                                 !.at = "sleep"]
  /\ UNCHANGED <<refs, prefs, pc, i, k, matches, call, last, mergedRefs, validations,
                 progressLog, result>>

\* attempt++ and Zotero.HTTP.request throws: the helper throws
RetryThrow ==
  /\ unit.op = "requestJsonWithRetry"
  /\ unit.at = "request"
  /\ unit' = [unit EXCEPT !.attempt = @ + 1, !.at = "threw", !.done = TRUE]
  /\ UNCHANGED <<refs, prefs, pc, i, k, matches, call, last, mergedRefs, validations,
                 progressLog, result>>

\* await sleep(backoffMs) is over
RetrySleep ==
  /\ unit.op = "requestJsonWithRetry"
  /\ unit.at = "sleep"
  /\ unit' = [unit EXCEPT !.at = "request"]
  /\ UNCHANGED <<refs, prefs, pc, i, k, matches, call, last, mergedRefs, validations,
                 progressLog, result>>

NextRetry == RetryRespond \/ RetryThrow \/ RetrySleep

SpecRetry == InitRetry /\ [][NextRetry]_vars

InRetry == unit.op = "requestJsonWithRetry"

\* the delay of the schedule before the attempt n + 1
ScheduledDelay(n) ==
  IF n = 1 THEN 2000 ELSE IF n = 2 THEN 4000 ELSE IF n = 3 THEN 8000 ELSE 15000

\* C26: the delay before the attempt n + 1 is min(2000 * 2^(n-1), 15000)
\* milliseconds, that is 2000, 4000, 8000, 15000, 15000, ...; a delay lies
\* between two attempts only: none before the first request, none after the
\* final attempt, none after an answer that is not transient; the default of 3
\* attempts waits exactly 2000 and then 4000 milliseconds when every answer is
\* transient.
C26_BackoffSchedule ==
  InRetry =>
    /\ \A n \in 1..Len(unit.delays) :
         /\ unit.delays[n] = ScheduledDelay(n)
         /\ n <= Len(unit.statuses)
         /\ unit.statuses[n] \in TransientStatuses
         /\ n < unit.maxAttempts
    /\ unit.attempt = 0 => unit.delays = <<>>
    /\ unit.at = "sleep" => Len(unit.delays) = unit.attempt
    /\ unit.at = "request" => Len(unit.delays) = unit.attempt
    /\ unit.at \in {"returned", "threw"} => Len(unit.delays) = unit.attempt - 1
    /\ (unit.at = "returned" /\ unit.maxAttempts = 3 /\ unit.attempt = 3) =>
         unit.delays = <<2000, 4000>>

\* the helper called with six attempts has waited the five delays of the
\* schedule, the fifth answer being transient as well
C26_Witness ==
  /\ InRetry
  /\ unit.at = "returned"
  /\ unit.maxAttempts = 6
  /\ unit.delays = <<2000, 4000, 8000, 15000, 15000>>
  /\ unit.statuses[6] = 503

-----------------------------------------------------------------------------
(* The selection of the best match and prefs.sourcePriorities (C27): the     *)
(* same matches selected from under two settings of the priority weights    *)

\* sourcePriorities as the caller builds it from the defaults
DefaultPriorities ==
  [gbv |-> 1, lobid |-> 2, loc |-> 3, crossref |-> 4, openalex |-> 5, wikidata |-> 6]

PrioritySettings ==
  {DefaultPriorities,
   [gbv |-> 6, lobid |-> 5, loc |-> 4, crossref |-> 3, openalex |-> 2, wikidata |-> 1],
   [gbv |-> 1, lobid |-> 1, loc |-> 1, crossref |-> 1, openalex |-> 1, wikidata |-> 1]}

\* the adapters whose matches are selected from
BestSources == {"crossref", "lobid", "gbv"}

\* what an enabled adapter has returned
VerdictsOf(source) ==
  {Validated(source, FOne, Expl("matched"), Undefined, NoPatch),
   Validated(source, Frac(9, 10), Expl("matched"), Undefined, NoPatch),
   Match(source, "invalid", Frac(1, 2), Expl("low similarity"), Undefined),
   NotFound(source, FZero, "no results")}

\* the matches array of the adapters on: one match of each, in invocation order
RECURSIVE MatchesFrom(_, _)
MatchesFrom(n, verdict) ==
  IF n > Len(Sources) THEN <<>>
  ELSE IF Sources[n] \in DOMAIN verdict
       THEN <<verdict[Sources[n]]>> \o MatchesFrom(n + 1, verdict)
       ELSE MatchesFrom(n + 1, verdict)

MatchLists ==
  UNION {{MatchesFrom(1, verdict) :
            verdict \in {f \in [on -> UNION {VerdictsOf(s) : s \in on}] :
                           \A s \in on : f[s] \in VerdictsOf(s)}} :
         on \in (SUBSET BestSources) \ {{}}}

\* the matches no other match sorts before
Top(ms) == {j \in DOMAIN ms : \A h \in DOMAIN ms : ~SortsBefore(ms[h], ms[j])}

\* a selection that reads the weights: of the matches no other sorts before,
\* the one of the source of least weight
SelectBestByPriority(ms, priorities) ==
  ms[CHOOSE j \in Top(ms) :
       \A h \in Top(ms) :
          \/ priorities[ms[j].source] < priorities[ms[h].source]
          \/ priorities[ms[j].source] = priorities[ms[h].source] /\ j <= h]

\* matches.slice().sort(...)[0] of validateAndEnrich called with prefs whose
\* sourcePriorities is priorities: the field is not read
SelectBest(ms, priorities) == BestOf(ms)

InitBest ==
  /\ Idle
  /\ \E ms \in MatchLists : \E p \in PrioritySettings, q \in PrioritySettings :
       unit = [op |-> "selectBest", matches |-> ms, p |-> p, q |-> q, done |-> FALSE,
               bestP |-> NoMatch, bestQ |-> NoMatch]

\* the selection under either setting
CallSelectBest ==
  /\ unit.op = "selectBest"
  /\ ~unit.done
  /\ unit' = [unit EXCEPT !.done = TRUE,
                          !.bestP = SelectBest(unit.matches, unit.p),
                          !.bestQ = SelectBest(unit.matches, unit.q)]
  /\ UNCHANGED <<refs, prefs, pc, i, k, matches, call, last, mergedRefs, validations,
                 progressLog, result>>

NextBest == CallSelectBest

SpecBest == InitBest /\ [][NextBest]_vars

BestSelected == unit.op = "selectBest" /\ unit.done

\* the first match, in invocation order, of the best status and of the highest
\* score of that status
FirstOfTop(ms) ==
  ms[CHOOSE j \in DOMAIN ms :
       /\ \A h \in DOMAIN ms :
            \/ Rank(ms[j]) < Rank(ms[h])
            \/ Rank(ms[j]) = Rank(ms[h]) /\ FGeq(ms[j].score, ms[h].score)
       /\ \A h \in 1..(j - 1) :
            Rank(ms[h]) # Rank(ms[j]) \/ ms[h].score # ms[j].score]

-----------------------------------------------------------------------------
(* Patches and statuses (C28) *)

\* C28: an IndexMatch carries a patch if and only if its status is validated;
\* a reference whose best match is not validated is returned unchanged, with
\* enrichment on as well.
C28_PatchIffValidated ==
  /\ \A j \in DOMAIN matches : matches[j].hasPatch <=> matches[j].status = "validated"
  /\ \A j \in DOMAIN matches : ~matches[j].hasPatch => matches[j].patch = NoPatch
  /\ last.defined =>
       /\ \A j \in DOMAIN last.matches :
            last.matches[j].hasPatch <=> last.matches[j].status = "validated"
       /\ (~last.hasBest \/ last.best.status # "validated") =>
            /\ last.updated = last.ref
            /\ mergedRefs[Len(mergedRefs)] = last.ref

\* with enrichment on, the best match of a reference that has blank fields is
\* invalid, and the reference is returned as it was
C28_Witness ==
  /\ last.defined
  /\ prefs.enrichFromIndexes
  /\ last.hasBest
  /\ last.best.status = "invalid"
  /\ isBlank(last.ref.url)
  /\ isBlank(last.ref.publisher)
  /\ mergedRefs[Len(mergedRefs)] = last.ref

-----------------------------------------------------------------------------
(* The SPARQL lookup of matchWikidata (C29) *)

\* matchWikidata has resolved the lookup of a DOI whose request was answered
SparqlAnswered ==
  /\ AdapterResolved
  /\ unit.source = "wikidata"
  /\ PreRequest("wikidata", unit.ref).lookup = "doi"
  /\ ~unit.resp.threw

\* the answer holds a binding
BindingReturned == SparqlAnswered /\ unit.resp.status = 200 /\ ItemsOf(unit.resp) # <<>>

\* the reference after the forced patch of the match: enrichment is on and the
\* match of Wikidata is the best one
ForcedUpdate ==
  applyPatch(unit.ref, unit.value.patch, TRUE,
             ForceOverwrite(PrefsOf(TRUE, TRUE, {"wikidata"}), unit.value))

-----------------------------------------------------------------------------
(* An invalid verdict beside a validated one (C30) *)

HasStatus(ms, status) == \E j \in DOMAIN ms : ms[j].status = status

\* the matches of ms that are not invalid, in their order
RECURSIVE WithoutInvalid(_)
WithoutInvalid(ms) ==
  IF ms = <<>> THEN <<>>
  ELSE IF Head(ms).status = "invalid" THEN WithoutInvalid(Tail(ms))
  ELSE <<Head(ms)>> \o WithoutInvalid(Tail(ms))

\* an iteration is over whose matches hold an invalid and a validated one
InvalidBesideValidated ==
  /\ last.defined
  /\ HasStatus(last.matches, "invalid")
  /\ HasStatus(last.matches, "validated")

\* C30: when one adapter reports invalid and another validated for the same
\* reference, the validated match is the best match and its patch is applied,
\* with forced overwrite if its score is at least 0.95: the invalid verdict
\* never blocks the enrichment.
C30_InvalidDoesNotBlockEnrichment ==
  InvalidBesideValidated =>
    /\ last.hasBest
    /\ last.best.status = "validated"
    /\ last.best.hasPatch
    /\ last.best = BestOf(WithoutInvalid(last.matches))
    /\ last.forceOverwrite = (prefs.enrichFromIndexes /\ FGeq(last.best.score, Frac(95, 100)))
    /\ last.updated = applyPatch(last.ref, last.best.patch, prefs.enrichFromIndexes,
                                 last.forceOverwrite)
    /\ mergedRefs[Len(mergedRefs)] = last.updated

\* Crossref answers the DOI with a record of another DOI (invalid), Wikidata
\* returns a binding (validated, score 1): with enrichment on the title of the
\* reference is overwritten
C30_Witness ==
  /\ InvalidBesideValidated
  /\ prefs.enrichFromIndexes
  /\ last.matches[1].status = "invalid"
  /\ last.best.source = "wikidata"
  /\ last.forceOverwrite
  /\ last.updated.title # last.ref.title
  /\ mergedRefs[Len(mergedRefs)] = last.updated

=============================================================================
